---- MODULE Spec2Model ----
(***************************************************************************)
(* The cursor of gohive (hive.go): one Cursor on one Connection, driven by *)
(* one caller, against a HiveServer2 that answers the Thrift RPCs.         *)
(*                                                                         *)
(* The cursor's fields are the record `cursor`; the server side of the     *)
(* current statement is the record `server`.  Every exported method is an  *)
(* operator on a "world" record (cursor, server, RPCs sent by the call)    *)
(* translated from its Go body, and an action that commits its result.     *)
(* A synchronous Execute spans several steps (WaitForCompletion polls      *)
(* while a watcher goroutine observes the context); `pc` holds its         *)
(* position.  The log channel, the calls on a connection and the           *)
(* goroutines of pollUntilData have specifications of their own (LogSpec,  *)
(* ConnectionSpec, PollSpec).                                              *)
(***************************************************************************)
EXTENDS Integers, Sequences, FiniteSets, TLC

\* ------------------------------------------------------------------ bounds
MaxRows == 3        \* largest result set of a statement
MaxFetchSize == 2   \* largest configuration.FetchSize
MaxOps == 2         \* operation handles the server issues in one behaviour
MaxFailures == 2    \* failed Executes in a row that are told apart
MaxLogs == 2        \* fetches of log lines the server answers during one Execute

\* ------------------------------------------------- constants of the source
NumCols == 2        \* columns of the tests' table: (a INT, b STRING)
_RUNNING == 0
_FINISHED == 1
_NONE == 2
_CONTEXT_DONE == 3
_ERROR == 4
_ASYNC_ENDED == 5

CursorStates == {_RUNNING, _FINISHED, _NONE, _CONTEXT_DONE, _ERROR, _ASYNC_ENDED}

\* An error value is a record: its field error is the text of the error, and
\* a HiveError has the fields Message and ErrorCode besides.
New(text) == [error |-> text]

\* nil values of the Go fields
NilHandle == 0
NoErr == New("nil")
NilResponse == "nil"
NilDescription == [set |-> FALSE, cols |-> <<>>]
NilChannel == "nil"     \* Cursor.Logs of a cursor without log channel
NilLogs == 0            \* the nil slice FetchLogs returns when it has no lines

\* error values (the messages of hive.go, by name)
ErrNoMoreRows == New("No more rows are left")
ErrContextFetch == New("Context is done")
ErrContextExec == New("Context was done before the query was executed")
ErrDeadline == New("context deadline exceeded")
ErrProbablyContext == New("Probably the context was over when passed to execute")
ErrRpc == New("rpc error")
ErrStatus == New("status not success")
ErrHive == New("HiveError")
ErrAllEmpty == New("All columns seem empty")
ErrUnrecognized == New("Unrecognized column type")
ErrOnlyRows == New("Only n rows where received")
ErrArgCount == New("arguments where passed for filling but the number of columns is")
ErrDataType == New("Unexpected data type")
ErrEmptyColumn == New("Empty column")
ErrNoHandle == New("Description can only be called after after a Poll or after an async request")

\* ------------------------------------------------------------- the server
\* TOperationState values the server reports (spec.md section 6)
ActiveStates == {"INITIALIZED_STATE", "PENDING_STATE", "RUNNING_STATE"}
TerminalStates == {"FINISHED_STATE", "ERROR_STATE", "CANCELED_STATE"}

RpcOutcomes == {"ok", "rpcErr", "badStatus"}

\* the rows srv still has to send: ids pos+1 .. min(pos+f, nrows)
NextRows(srv, f) ==
    LET hi == IF srv.pos + f < srv.nrows THEN srv.pos + f ELSE srv.nrows
    IN [i \in 1..(hi - srv.pos) |-> srv.pos + i]

\* a well-formed columnar batch: every column carries one value per row
Columns(rows) == [j \in 1..NumCols |-> [set |-> TRUE, values |-> rows]]

\* a batch whose first column has no value vector the client knows
UnsetFirst(rows) ==
    [j \in 1..NumCols |-> IF j = 1 THEN [set |-> FALSE, values |-> <<>>]
                                   ELSE [set |-> TRUE, values |-> rows]]

\* the handle h names an operation the server can serve rows of
Servable(srv, h) ==
    /\ h # NilHandle
    /\ h \in srv.open
    /\ h = srv.issued
    /\ srv.opState = "FINISHED_STATE"

\* replies the server can give to FetchResults(h): transport failure,
\* non-success status, or (for a finished open operation) a batch
FetchOutcomes(srv, h) ==
    {"rpcErr", "badStatus"} \cup
    (IF Servable(srv, h) THEN {"batch", "noCols", "unrec"} ELSE {})

\* the TFetchResultsResp of outcome o, has_more_rows flag b
FetchReply(srv, f, o, b) ==
    [status |-> IF o = "badStatus" THEN "ERROR_STATUS" ELSE "SUCCESS_STATUS",
     hasMoreRows |-> b,
     rows |-> IF o \in {"batch", "unrec"} THEN NextRows(srv, f) ELSE <<>>,
     cols |-> CASE o = "batch" -> Columns(NextRows(srv, f))
                [] o = "unrec" -> UnsetFirst(NextRows(srv, f))
                [] OTHER -> <<>>]

\* the server after answering FetchResults with outcome o
FetchServed(srv, f, o) ==
    IF o \in {"batch", "unrec"}
    THEN [srv EXCEPT !.pos = srv.pos + Len(NextRows(srv, f))]
    ELSE srv

\* a closed operation's result set is discarded
CloseServed(srv, h, o) ==
    IF o # "ok" THEN srv
    ELSE IF h = srv.issued
    THEN [srv EXCEPT !.open = srv.open \ {h}, !.nrows = 0, !.pos = 0,
                     !.hasResultSet = FALSE, !.opState = "CLOSED_STATE"]
    ELSE [srv EXCEPT !.open = srv.open \ {h}]

CancelServed(srv, h, o) ==
    IF o = "ok" /\ h = srv.issued /\ srv.opState \in ActiveStates
    THEN [srv EXCEPT !.opState = "CANCELED_STATE"]
    ELSE srv

\* CloseOperation / CancelOperation on a handle the server does not hold fail
HandleOutcomes(srv, h) ==
    IF h # NilHandle /\ h \in srv.open THEN RpcOutcomes ELSE {"rpcErr", "badStatus"}

\* -------------------------------------------------------------- the state
VARIABLES
    cursor,       \* the fields of the Cursor struct
    server,       \* the server's side: open operations, the current result set
    fetchSize,    \* conn.configuration.FetchSize
    pc,           \* "idle", or the position of the caller in a synchronous
                  \* Execute or in pollUntilData
    ctxDone,      \* the context of the running Execute is done
    contextDone,  \* WaitForCompletion's flag, set by its watcher goroutine
    watcher,      \* the watcher goroutine of WaitForCompletion is alive
    call,         \* the last call of the caller: name, result, RPCs it sent,
                  \* and for an Execute the failed Executes right before it,
                  \* the status of the reply to its ExecuteStatement, the
                  \* reply to GetOperationStatus that ended its polling, the
                  \* batches of log lines it fetched, what it sent to the
                  \* log channel, and the batch it is about to send
    returned,     \* rows of the batches parsed since the last ExecuteStatement
    delivered,    \* rows handed to the caller since the last ExecuteStatement
    closeSent,    \* handles for which a CloseOperation was sent
    clean,        \* no fetch since the last ExecuteStatement failed, was
                  \* malformed or ran under a done context
    probe,        \* the last application of a function on values (isNull, the
                  \* store of FetchOne into a destination, the map of RowMap)
                  \* or of a call on a connection (Connect, Close, a round trip
                  \* of the cookie transport) to inputs of its own: what it was
                  \* given and what it gave
    poll          \* the goroutines of the last pollUntilData: the context of
                  \* the call, the worker's position, the stop flag and its
                  \* mutex, the RPC in flight, the value on its way through
                  \* the channel rowsAvailable, the error the caller holds;
                  \* and whether every FetchResults for rows so far was
                  \* answered with a well-formed batch

vars == <<cursor, server, fetchSize, pc, ctxDone, contextDone, watcher, call,
          returned, delivered, closeSent, clean, probe, poll>>

\* the variables of the cursor and its server
sessionVars == <<cursor, server, fetchSize, pc, ctxDone, contextDone, watcher, call,
                 returned, delivered, closeSent, clean, poll>>

NoProbe == [op |-> "none"]

\* no pollUntilData has run yet
NoPolling ==
    [name |-> "none", active |-> FALSE, ctx0 |-> FALSE, ctx |-> FALSE,
     worker |-> "none", lock |-> "free", done |-> FALSE, inflight |-> 0,
     val |-> <<>>, err |-> NoErr, path |-> "none",
     o |-> "rpcErr", fetches |-> <<>>, parsed |-> <<>>, sound |-> TRUE]

\* The world a method runs in and changes: the cursor, the server, and what
\* the call has done so far (control RPCs sent, the cursor as it was when each
\* FetchResults for rows was sent, rows parsed, rows delivered, a Go panic).
World ==
    [cur |-> cursor, srv |-> server, rpc |-> <<>>, fetches |-> <<>>,
     parsed |-> <<>>, out |-> <<>>, panic |-> FALSE]

Rpc(name, h) == [name |-> name, h |-> h]

StatusError(o) == IF o = "rpcErr" THEN ErrRpc ELSE ErrStatus

\* --------------------------------------------------- reset, cancel, submit
\* resetState that keeps the queue and the description of the operation closed
resetStateKeepsData(w, o) ==
    LET c == w.cur
        cleared == [c EXCEPT !.response = NilResponse, !.Err = NoErr,
                             !.columnIndex = 0, !.totalRows = 0,
                             !.state = _NONE, !.newData = FALSE]
    IN IF c.operationHandle # NilHandle
       THEN [w |-> [w EXCEPT !.cur = [cleared EXCEPT !.operationHandle = NilHandle],
                             !.srv = CloseServed(w.srv, c.operationHandle, o),
                             !.rpc = Append(w.rpc, Rpc("CloseOperation", c.operationHandle))],
             err |-> IF o = "ok" THEN NoErr ELSE StatusError(o)]
       ELSE [w |-> [w EXCEPT !.cur = cleared], err |-> NoErr]

\* hive.go:1330 resetState: clears the cursor, then closes the operation held
resetState(w, o) ==
    LET c == w.cur
        cleared == [c EXCEPT !.response = NilResponse, !.Err = NoErr,
                             !.queue = <<>>, !.columnIndex = 0, !.totalRows = 0,
                             !.state = _NONE, !.description = NilDescription,
                             !.newData = FALSE]
    IN IF c.operationHandle # NilHandle
       THEN [w |-> [w EXCEPT !.cur = [cleared EXCEPT !.operationHandle = NilHandle],
                             !.srv = CloseServed(w.srv, c.operationHandle, o),
                             !.rpc = Append(w.rpc, Rpc("CloseOperation", c.operationHandle))],
             err |-> IF o = "ok" THEN NoErr ELSE StatusError(o)]
       ELSE [w |-> [w EXCEPT !.cur = cleared], err |-> NoErr]

\* Cancel that keeps an error already in the error slot
CancelKeepsError(w, o) ==
    IF w.cur.Err # NoErr THEN w
    ELSE [w EXCEPT !.srv = CancelServed(w.srv, w.cur.operationHandle, o),
                   !.rpc = Append(w.rpc, Rpc("CancelOperation", w.cur.operationHandle))]

\* hive.go:1309 Cancel
Cancel(w, o) ==
    [w EXCEPT !.cur.Err = IF o = "ok" THEN NoErr ELSE StatusError(o),
              !.srv = CancelServed(w.srv, w.cur.operationHandle, o),
              !.rpc = Append(w.rpc, Rpc("CancelOperation", w.cur.operationHandle))]

\* A TStatus of a reply: its status code and its optional error code and error
\* message, <<>> when unset.  NilStatus is a reply without status.
NilStatus == [nil |-> TRUE]

DEFAULT_ERROR_CODE == -1
DEFAULT_ERROR_MESSAGE == "unknown error"
DEFAULT_STATUS ==
    [statusCode |-> "ERROR_STATUS", errorCode |-> <<DEFAULT_ERROR_CODE>>,
     errorMessage |-> <<DEFAULT_ERROR_MESSAGE>>]

\* hive.go:1392 safeStatus
safeStatus(status) == IF status = NilStatus THEN DEFAULT_STATUS ELSE status

\* hive.go:711 success
success(status) == status.statusCode \in {"SUCCESS_STATUS", "SUCCESS_WITH_INFO_STATUS"}

\* the getters of TStatus: the zero value for an unset field
GetErrorMessage(status) ==
    IF status.errorMessage = <<>> THEN "" ELSE status.errorMessage[1]

GetErrorCode(status) ==
    IF status.errorCode = <<>> THEN 0 ELSE status.errorCode[1]

\* a HiveError that carries the default message whatever the status says
HiveErrorDefaultMessage(status) ==
    [error |-> ErrHive.error, Message |-> DEFAULT_ERROR_MESSAGE,
     ErrorCode |-> GetErrorCode(status)]

\* hive.go:640 the HiveError of a status
HiveError(status) ==
    [error |-> ErrHive.error, Message |-> GetErrorMessage(status),
     ErrorCode |-> GetErrorCode(status)]

\* the error of the test table_doesnt_exist
TableNotFoundCode == 10001
TableNotFound == "Table not found"

\* the statuses a reply to ExecuteStatement carries: success with a handle;
\* without one no status at all, or an error status, with or without error
\* code and error message
ExecStatuses(o) ==
    CASE o = "ok" ->
           {[statusCode |-> "SUCCESS_STATUS", errorCode |-> <<>>, errorMessage |-> <<>>]}
      [] o = "badStatus" ->
           {NilStatus,
            [statusCode |-> "ERROR_STATUS", errorCode |-> <<>>, errorMessage |-> <<>>],
            [statusCode |-> "ERROR_STATUS", errorCode |-> <<TableNotFoundCode>>,
             errorMessage |-> <<TableNotFound>>]}
      [] OTHER -> {NilStatus}

\* replies to ExecuteStatement: a handle, a transport error, an error that
\* reports the context's deadline, a non-success status.  With an error the
\* generated client returns no response.
ExecOutcomes(srv) ==
    (IF srv.issued < MaxOps THEN {"ok"} ELSE {}) \cup {"rpcErr", "badStatus", "deadline"}

ExecServed(srv, o, hasRS) ==
    IF o = "ok"
    THEN [srv EXCEPT !.issued = srv.issued + 1, !.open = srv.open \cup {srv.issued + 1},
                     !.nrows = 0, !.pos = 0, !.logs = 0,
                     !.hasResultSet = hasRS, !.opState = "INITIALIZED_STATE"]
    ELSE srv

\* executeAsync that submits the statement without resetting the cursor first
executeAsyncNoReset(w, oc, oe, hasRS, status) ==
    LET answered(run) ==
            CASE oe = "rpcErr" -> [run EXCEPT !.cur.Err = ErrRpc]
              [] oe = "deadline" -> [run EXCEPT !.cur.Err = ErrDeadline, !.cur.state = _ERROR]
              [] ~success(safeStatus(status)) ->
                   [run EXCEPT !.cur.Err = HiveError(safeStatus(status))]
              [] OTHER ->
                   [run EXCEPT !.cur.operationHandle = run.srv.issued,
                               !.cur.state = IF hasRS THEN _RUNNING ELSE _FINISHED]
        submit(r) ==
            answered([r EXCEPT !.cur.state = _RUNNING,
                               !.srv = ExecServed(r.srv, oe, hasRS),
                               !.rpc = Append(r.rpc, Rpc("ExecuteStatement", NilHandle))])
    IN submit(w)

\* executeAsync that gives up at once on a cursor whose error slot is set
executeAsyncStopsOnError(w, oc, oe, hasRS, status) ==
    IF w.cur.Err # NoErr THEN w
    ELSE executeAsyncNoReset(resetState(w, oc).w, oc, oe, hasRS, status)

\* executeAsync that leaves the cursor RUNNING whatever the handle says
executeAsyncAlwaysRunning(w, oc, oe, hasRS, status) ==
    LET answered(run) ==
            CASE oe = "rpcErr" -> [run EXCEPT !.cur.Err = ErrRpc]
              [] oe = "deadline" -> [run EXCEPT !.cur.Err = ErrDeadline, !.cur.state = _ERROR]
              [] ~success(safeStatus(status)) ->
                   [run EXCEPT !.cur.Err = HiveError(safeStatus(status))]
              [] OTHER -> [run EXCEPT !.cur.operationHandle = run.srv.issued]
        submit(r) ==
            answered([r EXCEPT !.cur.state = _RUNNING,
                               !.srv = ExecServed(r.srv, oe, hasRS),
                               !.rpc = Append(r.rpc, Rpc("ExecuteStatement", NilHandle))])
    IN submit(resetState(w, oc).w)

\* hive.go:614 executeAsync
executeAsync(w, oc, oe, hasRS, status) ==
    LET answered(run) ==
            CASE oe = "rpcErr" -> [run EXCEPT !.cur.Err = ErrRpc]
              [] oe = "deadline" -> [run EXCEPT !.cur.Err = ErrDeadline, !.cur.state = _ERROR]
              [] ~success(safeStatus(status)) ->
                   [run EXCEPT !.cur.Err = HiveError(safeStatus(status))]
              [] OTHER ->
                   [run EXCEPT !.cur.operationHandle = run.srv.issued,
                               !.cur.state = IF hasRS THEN _RUNNING ELSE _FINISHED]
        submit(r) ==
            answered([r EXCEPT !.cur.state = _RUNNING,
                               !.srv = ExecServed(r.srv, oe, hasRS),
                               !.rpc = Append(r.rpc, Rpc("ExecuteStatement", NilHandle))])
    IN submit(resetState(w, oc).w)

\* hive.go:601 handleDoneContext
handleDoneContext(w, ocancel, oclose) ==
    LET originalError == w.cur.Err
        finish(r) == [r EXCEPT !.cur.Err = originalError, !.cur.state = _FINISHED]
        reset(x) == finish(resetState(x, oclose).w)
        cancelled(x) == IF x.cur.Err # NoErr THEN x ELSE reset(x)
    IN IF w.cur.operationHandle # NilHandle THEN cancelled(Cancel(w, ocancel))
       ELSE reset(w)

\* ------------------------------------------------------------- the fetch
\* getTotalRows that takes a reply without columns for an empty batch
getTotalRowsAllowsNoColumn(columns) ==
    IF Len(columns) = 0 THEN [n |-> 0, err |-> NoErr]
    ELSE IF columns[1].set THEN [n |-> Len(columns[1].values), err |-> NoErr]
    ELSE [n |-> -1, err |-> ErrUnrecognized]

\* hive.go:1367 getTotalRows: the length of the first column's value vector
getTotalRows(columns) ==
    IF Len(columns) = 0 THEN [n |-> 0, err |-> ErrAllEmpty]
    ELSE IF columns[1].set THEN [n |-> Len(columns[1].values), err |-> NoErr]
    ELSE [n |-> -1, err |-> ErrUnrecognized]

\* parseResults that ends the stream when the reply's has_more_rows is false
parseResultsTrustsFlag(c, response) ==
    LET finish(c1, err) ==
            [c |-> IF ~response.hasMoreRows THEN [c1 EXCEPT !.state = _FINISHED] ELSE c1,
             err |-> err]
        store(t) ==
            finish([c EXCEPT !.queue = response.cols, !.columnIndex = 0,
                             !.totalRows = t.n, !.newData = (t.n > 0)], t.err)
    IN store(getTotalRows(response.cols))

\* parseResults that keeps the read position of the batch before
parseResultsKeepsIndex(c, response) ==
    LET finish(c1, err) ==
            [c |-> IF ~c1.newData THEN [c1 EXCEPT !.state = _FINISHED] ELSE c1,
             err |-> err]
        store(t) ==
            finish([c EXCEPT !.queue = response.cols,
                             !.totalRows = t.n, !.newData = (t.n > 0)], t.err)
    IN store(getTotalRows(response.cols))

\* hive.go:1356 parseResults
parseResults(c, response) ==
    LET finish(c1, err) ==
            [c |-> IF ~c1.newData THEN [c1 EXCEPT !.state = _FINISHED] ELSE c1,
             err |-> err]
        store(t) ==
            finish([c EXCEPT !.queue = response.cols, !.columnIndex = 0,
                             !.totalRows = t.n, !.newData = (t.n > 0)], t.err)
    IN store(getTotalRows(response.cols))

\* hive.go:1245-1283, one turn of the worker goroutine of pollUntilData: it
\* sends FetchResults and parses the reply.  "retry" stands for the sleep and
\* the next turn of its loop, taken after a parsed reply whose queue is empty.
fetchWorker(w, o, b) ==
    LET parsed(sent, reply, p) ==
            LET done == [sent EXCEPT !.cur = p.c, !.parsed = sent.parsed \o reply.rows]
            IN IF p.err # NoErr THEN [w |-> done, err |-> p.err]
               ELSE IF Len(p.c.queue) > 0 THEN [w |-> done, err |-> NoErr]
               ELSE [w |-> done, err |-> New("retry")]
        received(sent, reply) ==
            IF o = "rpcErr" THEN [w |-> sent, err |-> ErrRpc]
            ELSE IF reply.status # "SUCCESS_STATUS"
            THEN [w |-> [sent EXCEPT !.cur.response = "set"], err |-> ErrStatus]
            ELSE parsed(sent, reply,
                        parseResults([sent.cur EXCEPT !.response = "set"], reply))
    IN received([w EXCEPT !.fetches = Append(w.fetches,
                              [columnIndex |-> w.cur.columnIndex,
                               totalRows |-> w.cur.totalRows, state |-> w.cur.state]),
                          !.srv = FetchServed(w.srv, fetchSize, o)],
                FetchReply(w.srv, fetchSize, o, b))

\* how the select of pollUntilData can end: the worker's reply arrives first
\* ("reply"); or the context is done and the worker had already fetched
\* ("ctxFetched") or saw the stop flag before fetching ("ctxStopped")
PollModes == {"reply", "ctxFetched", "ctxStopped"}

\* hive.go:1241 pollUntilData
pollUntilData(w, n, mode, o, b) ==
    LET check(r) ==
            IF r.err # NoErr THEN r
            ELSE IF Len(r.w.cur.queue) < n THEN [w |-> r.w, err |-> ErrOnlyRows]
            ELSE r
        selected(worked) ==
            IF mode = "reply" THEN worked ELSE [w |-> worked.w, err |-> ErrContextFetch]
    IN IF mode = "ctxStopped" THEN [w |-> w, err |-> ErrContextFetch]
       ELSE check(selected(fetchWorker(w, o, b)))

\* HasMore that returns false when its fetch has left an error
HasMoreFalseOnError(w, mode, o, b) ==
    LET more(c) == c.state # _FINISHED \/ c.totalRows # c.columnIndex
        polled(p) == [w |-> [p.w EXCEPT !.cur.Err = p.err],
                      ret |-> p.err = NoErr /\ more(p.w.cur)]
        from(w0) ==
            IF \/ w0.cur.response = NilResponse /\ w0.cur.state # _FINISHED
               \/ w0.cur.totalRows = w0.cur.columnIndex /\ w0.cur.state # _FINISHED
            THEN polled(pollUntilData(w0, 1, mode, o, b))
            ELSE [w |-> w0, ret |-> more(w0.cur)]
    IN from([w EXCEPT !.cur.Err = NoErr])

\* HasMore that fetches on a consumed batch although the cursor is FINISHED
HasMoreIgnoresFinished(w, mode, o, b) ==
    LET more(c) == c.state # _FINISHED \/ c.totalRows # c.columnIndex
        polled(p) == [w |-> [p.w EXCEPT !.cur.Err = p.err], ret |-> more(p.w.cur)]
        from(w0) ==
            IF \/ w0.cur.response = NilResponse /\ w0.cur.state # _FINISHED
               \/ w0.cur.totalRows = w0.cur.columnIndex
            THEN polled(pollUntilData(w0, 1, mode, o, b))
            ELSE [w |-> w0, ret |-> more(w0.cur)]
    IN from([w EXCEPT !.cur.Err = NoErr])

\* HasMore that fetches although rows of the current batch are unread
HasMoreRefetches(w, mode, o, b) ==
    LET more(c) == c.state # _FINISHED \/ c.totalRows # c.columnIndex
        polled(p) == [w |-> [p.w EXCEPT !.cur.Err = p.err], ret |-> more(p.w.cur)]
        from(w0) ==
            IF w0.cur.state # _FINISHED
            THEN polled(pollUntilData(w0, 1, mode, o, b))
            ELSE [w |-> w0, ret |-> more(w0.cur)]
    IN from([w EXCEPT !.cur.Err = NoErr])

\* hive.go:1222 HasMore
HasMore(w, mode, o, b) ==
    LET more(c) == c.state # _FINISHED \/ c.totalRows # c.columnIndex
        polled(p) == [w |-> [p.w EXCEPT !.cur.Err = p.err], ret |-> more(p.w.cur)]
        from(w0) ==
            IF \/ w0.cur.response = NilResponse /\ w0.cur.state # _FINISHED
               \/ w0.cur.totalRows = w0.cur.columnIndex /\ w0.cur.state # _FINISHED
            THEN polled(pollUntilData(w0, 1, mode, o, b))
            ELSE [w |-> w0, ret |-> more(w0.cur)]
    IN from([w EXCEPT !.cur.Err = NoErr])

\* fetchIfEmpty that does not turn "no more rows" into an error
fetchIfEmptyUnchecked(w, mode, o, b) ==
    LET checked(hm) == hm.w
    IN IF w.cur.totalRows = w.cur.columnIndex
       THEN checked(HasMore([w EXCEPT !.cur.Err = NoErr, !.cur.queue = <<>>], mode, o, b))
       ELSE [w EXCEPT !.cur.Err = NoErr]

\* hive.go:716 fetchIfEmpty
fetchIfEmpty(w, mode, o, b) ==
    LET checked(hm) ==
            IF ~hm.ret THEN [hm.w EXCEPT !.cur.Err = ErrNoMoreRows] ELSE hm.w
    IN IF w.cur.totalRows = w.cur.columnIndex
       THEN checked(HasMore([w EXCEPT !.cur.Err = NoErr, !.cur.queue = <<>>], mode, o, b))
       ELSE [w EXCEPT !.cur.Err = NoErr]

\* ------------------------------------------------------------ row delivery
\* row k (0-based, as columnIndex) of a batch: index k of every column vector
Row(queue, k) == [j \in 1..Len(queue) |-> queue[j].values[k + 1]]

\* the destinations a caller passes to FetchOne: one per column and each of
\* its column's type, or the last of another type, or one destination too few
DestChoices ==
    {[j \in 1..NumCols |-> "match"],
     [j \in 1..NumCols |-> IF j = NumCols THEN "mismatch" ELSE "match"],
     [j \in 1..(NumCols - 1) |-> "match"]}

\* FetchOne that moves to the next row before it looks at the destinations
FetchOneAdvancesFirst(w, mode, o, b, dests) ==
    LET fill(w1) ==
            LET c == w1.cur
                bad == {i \in 1..Len(c.queue) : ~c.queue[i].set \/ dests[i] = "mismatch"}
                first == CHOOSE i \in bad : \A j \in bad : i <= j
                moved == [w1 EXCEPT !.cur.columnIndex = c.columnIndex + 1]
            IN IF c.Err # NoErr THEN w1
               ELSE IF Len(c.queue) # Len(dests) THEN [moved EXCEPT !.cur.Err = ErrArgCount]
               ELSE IF bad # {}
               THEN [moved EXCEPT !.cur.Err = IF c.queue[first].set THEN ErrDataType
                                                                    ELSE ErrEmptyColumn]
               ELSE IF \E j \in 1..Len(c.queue) : c.columnIndex + 1 > Len(c.queue[j].values)
               THEN [w1 EXCEPT !.panic = TRUE]
               ELSE [moved EXCEPT !.out = <<Row(c.queue, c.columnIndex)>>]
    IN fill(fetchIfEmpty([w EXCEPT !.cur.Err = NoErr], mode, o, b))

\* hive.go:974 FetchOne
FetchOne(w, mode, o, b, dests) ==
    LET fill(w1) ==
            LET c == w1.cur
                bad == {i \in 1..Len(c.queue) : ~c.queue[i].set \/ dests[i] = "mismatch"}
                first == CHOOSE i \in bad : \A j \in bad : i <= j
            IN IF c.Err # NoErr THEN w1
               ELSE IF Len(c.queue) # Len(dests) THEN [w1 EXCEPT !.cur.Err = ErrArgCount]
               ELSE IF bad # {}
               THEN [w1 EXCEPT !.cur.Err = IF c.queue[first].set THEN ErrDataType
                                                                 ELSE ErrEmptyColumn]
               ELSE IF \E j \in 1..Len(c.queue) : c.columnIndex + 1 > Len(c.queue[j].values)
               THEN [w1 EXCEPT !.panic = TRUE]
               ELSE [w1 EXCEPT !.cur.columnIndex = c.columnIndex + 1,
                               !.out = <<Row(c.queue, c.columnIndex)>>]
    IN fill(fetchIfEmpty([w EXCEPT !.cur.Err = NoErr], mode, o, b))

\* the schema the server reports for the current operation
Schema(srv) ==
    IF srv.hasResultSet THEN [j \in 1..NumCols |-> [name |-> j, type |-> "INT_TYPE"]]
    ELSE <<>>

MetaOutcomes(srv, h) ==
    IF h # NilHandle /\ h \in srv.open /\ h = srv.issued THEN RpcOutcomes
    ELSE {"rpcErr", "badStatus"}

\* hive.go:1192 Description
Description(w, od) ==
    LET c == w.cur
        c1 == IF c.operationHandle = NilHandle THEN [c EXCEPT !.Err = ErrNoHandle] ELSE c
    IN IF c.description.set THEN [w |-> w, d |-> c.description.cols]
       ELSE IF od # "ok"
       THEN [w |-> [w EXCEPT !.cur = [c1 EXCEPT !.Err = StatusError(od)]], d |-> <<>>]
       ELSE [w |-> [w EXCEPT !.cur = [c1 EXCEPT !.description =
                                         [set |-> TRUE, cols |-> Schema(w.srv)]]],
             d |-> Schema(w.srv)]

\* hive.go:731-849 and 852-971, the body RowMap and RowSlice share: the row is
\* read column by column through the vector the description's type names; a
\* column without that vector is a nil dereference
readRow(w, mode, o, b, od) ==
    LET read(dd) ==
            LET c == dd.w.cur
            IN IF c.Err # NoErr \/ Len(dd.d) # Len(c.queue) THEN dd.w
               ELSE IF \E j \in 1..Len(c.queue) :
                          ~c.queue[j].set \/ c.columnIndex + 1 > Len(c.queue[j].values)
               THEN [dd.w EXCEPT !.panic = TRUE]
               ELSE [dd.w EXCEPT !.cur.columnIndex = c.columnIndex + 1,
                                 !.out = <<Row(c.queue, c.columnIndex)>>]
        described(w1) == IF w1.cur.Err # NoErr THEN w1 ELSE read(Description(w1, od))
    IN described(fetchIfEmpty([w EXCEPT !.cur.Err = NoErr], mode, o, b))

\* hive.go:731 RowMap
RowMap(w, mode, o, b, od) == readRow(w, mode, o, b, od)

\* hive.go:852 RowSlice
RowSlice(w, mode, o, b, od) == readRow(w, mode, o, b, od)

\* Close that drops the error of resetState
CloseDropsError(w, o) == resetState(w, o).w

\* hive.go:1326 Close
Close(w, o) ==
    LET stored(r) == [r.w EXCEPT !.cur.Err = r.err]
    IN stored(resetState(w, o))

\* ----------------------------------------------------------- init, actions
\* hive.go:436 Connection.Cursor: every field but queue has Go's zero value,
\* so the state tag of a new cursor is 0, _RUNNING
NewCursor ==
    [operationHandle |-> NilHandle, queue |-> <<>>, response |-> NilResponse,
     columnIndex |-> 0, totalRows |-> 0, state |-> 0, newData |-> FALSE,
     Err |-> NoErr, description |-> NilDescription, Logs |-> NilChannel]

\* the server's side of a session that has run no statement yet
NewSession ==
    [open |-> {}, issued |-> 0, nrows |-> 0, pos |-> 0,
     hasResultSet |-> FALSE, opState |-> "NONE", logs |-> 0]

Init ==
    /\ cursor = NewCursor
    /\ server = NewSession
    /\ fetchSize \in 1..MaxFetchSize
    /\ pc = "idle"
    /\ ctxDone = FALSE
    /\ contextDone = FALSE
    /\ watcher = FALSE
    /\ call = [name |-> "Cursor", ret |-> FALSE, rpc |-> <<>>, fetches |-> <<>>,
               prior |-> 0, status |-> <<>>, polled |-> <<>>,
               logsFetched |-> <<>>, logsSent |-> <<>>, pending |-> NilLogs]
    /\ returned = <<>>
    /\ delivered = <<>>
    /\ closeSent = {}
    /\ clean = TRUE
    /\ probe = NoProbe
    /\ poll = NoPolling

ClosedBy(rpc) == {rpc[i].h : i \in {k \in 1..Len(rpc) : rpc[k].name = "CloseOperation"}}

\* the call polled for data: it sent a FetchResults or was stopped by its context
Polled(w) == Len(w.fetches) > 0 \/ w.cur.Err = ErrContextFetch

\* what the caller's last call was: its name and result, the control RPCs it
\* sent and the cursor as it was when it sent FetchResults
CallOf(name, ret, w) ==
    [name |-> name, ret |-> ret, rpc |-> w.rpc, fetches |-> w.fetches, prior |-> 0,
     status |-> <<>>, polled |-> <<>>,
     logsFetched |-> <<>>, logsSent |-> <<>>, pending |-> NilLogs]

\* how many Executes in a row have failed, the caller's last call being one
FailedExecutes ==
    IF call.name \in {"Execute", "ExecuteAsync"} /\ cursor.Err # NoErr
    THEN IF call.prior < MaxFailures THEN call.prior + 1 ELSE MaxFailures
    ELSE 0

\* The inputs of a call that may poll for data: how the select of
\* pollUntilData ends, the server's reply and, for a batch, its has_more_rows
\* flag.  A call that does not reach pollUntilData reads none of them; whether
\* it does shows when the call is run against a failing transport.
PollInputs(polls) ==
    IF ~polls THEN {<<"reply", "rpcErr", FALSE>>}
    ELSE {<<"ctxStopped", "rpcErr", FALSE>>}
         \cup {<<m, o, FALSE>> : m \in {"reply", "ctxFetched"},
                                 o \in FetchOutcomes(server, cursor.operationHandle) \ {"batch"}}
         \cup {<<m, o, b>> : m \in {"reply", "ctxFetched"},
                             o \in FetchOutcomes(server, cursor.operationHandle) \cap {"batch"},
                             b \in BOOLEAN}

\* the inputs of a call that never polls
NoPoll == <<"reply", "rpcErr", FALSE>>

\* the poll of a call went well: the worker's reply came first and was a
\* well-formed batch
Well(w, in) == Polled(w) => (in[1] = "reply" /\ in[2] = "batch")

\* a call made and finished while no Execute is running
Return(name, ret, w, in) ==
    /\ cursor' = w.cur
    /\ server' = w.srv
    /\ pc' = IF w.panic THEN "panic" ELSE "idle"
    /\ call' = CallOf(name, ret, w)
    /\ returned' = returned \o w.parsed
    /\ delivered' = delivered \o w.out
    /\ closeSent' = closeSent \cup ClosedBy(w.rpc)
    /\ clean' = (clean /\ Well(w, in))
    /\ UNCHANGED <<fetchSize, ctxDone, contextDone, watcher, probe, poll>>

HasMoreCall ==
    /\ pc = "idle"
    /\ \E in \in PollInputs(Polled(HasMore(World, "reply", "rpcErr", FALSE).w)) :
          LET done(r) == Return("HasMore", r.ret, r.w, in)
          IN done(HasMore(World, in[1], in[2], in[3]))

\* the destinations are read only once fetchIfEmpty has left no error
FetchOneCall ==
    /\ pc = "idle"
    /\ \E in \in PollInputs(Polled(fetchIfEmpty(World, "reply", "rpcErr", FALSE))) :
       \E dests \in (IF fetchIfEmpty(World, in[1], in[2], in[3]).cur.Err # NoErr
                     THEN {[j \in 1..NumCols |-> "match"]} ELSE DestChoices) :
          LET done(w) == Return("FetchOne", Len(w.out) > 0, w, in)
          IN done(FetchOne(World, in[1], in[2], in[3], dests))

\* GetResultSetMetadata is sent only once fetchIfEmpty has left no error and
\* no description is cached
RowMapCall ==
    /\ pc = "idle"
    /\ \E in \in PollInputs(Polled(fetchIfEmpty(World, "reply", "rpcErr", FALSE))) :
       \E od \in (IF \/ fetchIfEmpty(World, in[1], in[2], in[3]).cur.Err # NoErr
                     \/ cursor.description.set
                  THEN {"rpcErr"} ELSE MetaOutcomes(server, cursor.operationHandle)) :
          LET done(w) == Return("RowMap", Len(w.out) > 0, w, in)
          IN done(RowMap(World, in[1], in[2], in[3], od))

RowSliceCall ==
    /\ pc = "idle"
    /\ \E in \in PollInputs(Polled(fetchIfEmpty(World, "reply", "rpcErr", FALSE))) :
       \E od \in (IF \/ fetchIfEmpty(World, in[1], in[2], in[3]).cur.Err # NoErr
                     \/ cursor.description.set
                  THEN {"rpcErr"} ELSE MetaOutcomes(server, cursor.operationHandle)) :
          LET done(w) == Return("RowSlice", Len(w.out) > 0, w, in)
          IN done(RowSlice(World, in[1], in[2], in[3], od))

\* GetResultSetMetadata is sent only when no description is cached
DescriptionCall ==
    /\ pc = "idle"
    /\ \E od \in (IF cursor.description.set THEN {"rpcErr"}
                  ELSE MetaOutcomes(server, cursor.operationHandle)) :
          Return("Description", FALSE, Description(World, od).w, NoPoll)

CancelCall ==
    /\ pc = "idle"
    /\ \E o \in HandleOutcomes(server, cursor.operationHandle) :
          Return("Cancel", FALSE, Cancel(World, o), NoPoll)

CloseCall ==
    /\ pc = "idle"
    /\ \E o \in HandleOutcomes(server, cursor.operationHandle) :
          Return("Close", FALSE, Close(World, o), NoPoll)

\* hive.go:566 Execute, up to the return of executeAsync: an asynchronous
\* Execute and a failed submission return; a synchronous one goes on to
\* WaitForCompletion, which starts its watcher goroutine.  (executeAsync
\* leaves _CONTEXT_DONE only with an error and a response at once, which the
\* generated client never returns, so handleDoneContext is not called here;
\* it discards the error of resetState, so that a failed CloseOperation is
\* drawn as a transport failure only.)
ExecuteCall ==
    /\ pc = "idle"
    /\ \E async \in BOOLEAN, hasRS \in BOOLEAN,
          oc \in HandleOutcomes(server, cursor.operationHandle) \ {"badStatus"},
          oe \in ExecOutcomes(server) :
       \E status \in ExecStatuses(oe) :
          LET submitted(w) ==
                  /\ cursor' = w.cur
                  /\ server' = w.srv
                  /\ pc' = IF ~async /\ w.cur.Err = NoErr THEN "wfc" ELSE "idle"
                  /\ watcher' = (~async /\ w.cur.Err = NoErr)
                  /\ call' = [CallOf(IF async THEN "ExecuteAsync" ELSE "Execute", FALSE, w)
                                EXCEPT !.prior = FailedExecutes,
                                       !.status = IF oe \in {"ok", "badStatus"}
                                                  THEN <<status>> ELSE <<>>]
                  /\ closeSent' = closeSent \cup ClosedBy(w.rpc)
          IN /\ (oe # "ok" => hasRS)
             /\ submitted(executeAsync(World, oc, oe, hasRS, status))
             /\ ctxDone' = FALSE
             /\ contextDone' = FALSE
             /\ returned' = <<>>
             /\ delivered' = <<>>
             /\ clean' = TRUE
             /\ UNCHANGED <<fetchSize, probe, poll>>

\* the order in which the server takes an operation through its states
Rank(st) ==
    CASE st = "INITIALIZED_STATE" -> 0 [] st = "PENDING_STATE" -> 1
      [] st = "RUNNING_STATE" -> 2 [] OTHER -> 3

\* the server works on the operation it runs; the statement's result set, of
\* any size up to MaxRows, is there when the operation finishes
ServerAdvance ==
    /\ server.opState \in ActiveStates
    /\ \E st \in ActiveStates \cup {"FINISHED_STATE", "ERROR_STATE"} :
       \E n \in (IF st = "FINISHED_STATE" /\ server.hasResultSet THEN 0..MaxRows ELSE {0}) :
          /\ Rank(st) > Rank(server.opState)
          /\ server' = [server EXCEPT !.opState = st, !.nrows = n]
    /\ UNCHANGED <<cursor, fetchSize, pc, ctxDone, contextDone, watcher, call,
                   returned, delivered, closeSent, clean, probe, poll>>

\* the context of the running Execute is cancelled or reaches its deadline
ContextDone ==
    /\ pc \in {"wfc", "loopSend"}
    /\ ~ctxDone
    /\ ctxDone' = TRUE
    /\ UNCHANGED <<cursor, server, fetchSize, pc, contextDone, watcher, call,
                   returned, delivered, closeSent, clean, probe, poll>>

\* hive.go:500-508, the watcher goroutine of WaitForCompletion
Watcher ==
    /\ pc \in {"wfc", "loopSend"}
    /\ watcher
    /\ ctxDone
    /\ contextDone' = TRUE
    /\ watcher' = FALSE
    /\ UNCHANGED <<cursor, server, fetchSize, pc, ctxDone, call,
                   returned, delivered, closeSent, clean, probe, poll>>

\* hive.go:655 Poll
Poll(w, o) ==
    [w EXCEPT !.cur.Err = IF o = "ok" THEN NoErr ELSE StatusError(o)]

\* hive.go:655 Poll called by the caller; the response it returns is not kept
PollCall ==
    /\ pc = "idle"
    /\ \E o \in HandleOutcomes(server, cursor.operationHandle) :
          Return("Poll", FALSE, Poll(World, o), NoPoll)

\* hive.go:701 Finished: true after a failed poll; after an answered one, true
\* unless the operation is INITIALIZED or RUNNING
Finished(w, o) ==
    LET polled(p) ==
            [w |-> p,
             ret |-> IF p.cur.Err # NoErr THEN TRUE
                     ELSE p.srv.opState \notin {"INITIALIZED_STATE", "RUNNING_STATE"}]
    IN polled(Poll(w, o))

FinishedCall ==
    /\ pc = "idle"
    /\ \E o \in HandleOutcomes(server, cursor.operationHandle) :
          LET done(r) == Return("Finished", r.ret, r.w, NoPoll)
          IN done(Finished(World, o))

\* The messages of a TGetOperationStatusResp: task_status, error_message and
\* the error_message of its status, each <<>> when unset.
NoMessages == [taskStatus |-> <<>>, errorMessage |-> <<>>, statusMessage |-> <<>>]

EmptyTaskStatus == "[]"

\* the messages a server sends with an operation that failed
FailureMessages ==
    {NoMessages,
     [taskStatus |-> <<>>, errorMessage |-> <<>>, statusMessage |-> <<"status message">>],
     [taskStatus |-> <<>>, errorMessage |-> <<"error message">>, statusMessage |-> <<>>],
     [taskStatus |-> <<EmptyTaskStatus>>, errorMessage |-> <<>>,
      statusMessage |-> <<"status message">>],
     [taskStatus |-> <<EmptyTaskStatus>>, errorMessage |-> <<"error message">>,
      statusMessage |-> <<"status message">>],
     [taskStatus |-> <<"task status">>, errorMessage |-> <<"error message">>,
      statusMessage |-> <<"status message">>]}

\* the messages of the reply to a poll of the operation the server runs
OperationMessages(srv) ==
    IF srv.opState \in TerminalStates \ {"FINISHED_STATE"} THEN FailureMessages
    ELSE {NoMessages}

\* hive.go:527 the message made up for an operation that carries none
Placeholder(state) ==
    CASE state = "ERROR_STATE" ->
           "gohive: operation in state (ERROR_STATE) without task status or error message"
      [] state = "CANCELED_STATE" ->
           "gohive: operation in state (CANCELED_STATE) without task status or error message"
      [] OTHER -> "gohive: operation in state without task status or error message"

\* the error of a failed operation that reads error_message before task_status
operationErrorPrefersErrorMessage(state, reply) ==
    New(IF reply.errorMessage # <<>> THEN reply.errorMessage[1]
        ELSE IF reply.taskStatus # <<>> /\ reply.taskStatus[1] # EmptyTaskStatus
        THEN reply.taskStatus[1]
        ELSE IF reply.statusMessage # <<>> THEN reply.statusMessage[1]
        ELSE Placeholder(state))

\* hive.go:519-530 the error WaitForCompletion sets for an operation that
\* ended in a state other than FINISHED.  (Poll has returned the reply, so its
\* status is there and is success.)
operationError(state, reply) ==
    LET task == reply.taskStatus
        first == IF task = <<>> \/ task[1] = EmptyTaskStatus THEN reply.errorMessage
                 ELSE task
        second == IF first = <<>> THEN reply.statusMessage ELSE first
    IN New(IF second = <<>> THEN Placeholder(state) ELSE second[1])

\* a loop of WaitForCompletion that never reads the flag of its watcher
WaitForCompletionIgnoresContext(w, o, flag, reply) ==
    LET status == w.srv.opState
        polled(p) ==
            IF p.cur.Err # NoErr THEN [w |-> p, to |-> "return"]
            ELSE IF status \notin ActiveStates
            THEN [w |-> IF status # "FINISHED_STATE"
                        THEN [p EXCEPT !.cur.Err = operationError(status, reply)] ELSE p,
                  to |-> "break"]
            ELSE [w |-> p, to |-> "loop"]
    IN polled(Poll(w, o))

\* hive.go:510-556, one turn of the loop of WaitForCompletion: "return" and
\* "break" leave the loop, "loop" polls again after the sleep.  reply holds
\* the messages of the reply to the poll.
WaitForCompletion(w, o, flag, reply) ==
    LET status == w.srv.opState
        polled(p) ==
            IF p.cur.Err # NoErr THEN [w |-> p, to |-> "return"]
            ELSE IF status \notin ActiveStates
            THEN [w |-> IF status # "FINISHED_STATE"
                        THEN [p EXCEPT !.cur.Err = operationError(status, reply)] ELSE p,
                  to |-> "break"]
            ELSE IF flag
            THEN [w |-> [p EXCEPT !.cur.Err = ErrContextExec, !.cur.state = _CONTEXT_DONE],
                  to |-> "return"]
            ELSE [w |-> p, to |-> "loop"]
    IN polled(Poll(w, o))

\* hive.go:577-597 Execute after executeAsync, on a cursor without log
\* channel: one poll of WaitForCompletion and, when it has returned, the rest
\* of Execute up to handleDoneContext
WaitTurn(o) ==
    /\ pc = "wfc"
    /\ cursor.Logs = NilChannel
    /\ o \in HandleOutcomes(server, cursor.operationHandle)
    /\    LET waited(r) ==
                  LET c == r.w.cur
                      after == IF c.Err # NoErr
                               THEN IF c.state = _ERROR
                                    THEN [c EXCEPT !.Err = ErrProbablyContext] ELSE c
                               ELSE [c EXCEPT !.state = _ASYNC_ENDED]
                  IN /\ cursor' = IF r.to = "loop" THEN c ELSE after
                     /\ pc' = IF r.to = "loop" THEN "wfc"
                              ELSE IF c.Err # NoErr /\ c.state = _CONTEXT_DONE THEN "hdc"
                              ELSE "idle"
                     /\ watcher' = (watcher /\ r.to = "loop")
          IN \E reply \in (IF o = "ok" THEN OperationMessages(server) ELSE {NoMessages}) :
             /\ waited(WaitForCompletion([World EXCEPT !.rpc = call.rpc], o, contextDone,
                                         reply))
             /\ call' = IF o = "ok" /\ server.opState \notin ActiveStates
                        THEN [call EXCEPT !.polled = <<[state |-> server.opState,
                                                        reply |-> reply]>>]
                        ELSE call
             /\ ctxDone' = (ctxDone /\ pc' # "idle")
             /\ contextDone' = (contextDone /\ pc' # "idle")
             /\ UNCHANGED <<server, fetchSize, returned, delivered, closeSent, clean,
                            probe, poll>>

\* the reply to GetOperationStatus is any the server can give
WaitStep == \E o \in RpcOutcomes : WaitTurn(o)

\* hive.go:578-580 Execute calls handleDoneContext and returns
DoneContextStep ==
    /\ pc = "hdc"
    /\ \E ocancel \in HandleOutcomes(server, cursor.operationHandle),
          oclose \in HandleOutcomes(server, cursor.operationHandle) :
          LET handled(w) ==
                  /\ cursor' = w.cur
                  /\ server' = w.srv
                  /\ call' = [call EXCEPT !.rpc = w.rpc]
                  /\ closeSent' = closeSent \cup ClosedBy(w.rpc)
          IN /\ handled(handleDoneContext([World EXCEPT !.rpc = call.rpc], ocancel, oclose))
             /\ pc' = "idle"
             /\ ctxDone' = FALSE
             /\ contextDone' = FALSE
             /\ watcher' = FALSE
             /\ UNCHANGED <<fetchSize, returned, delivered, clean, probe, poll>>

Next ==
    \/ ExecuteCall
    \/ WaitStep
    \/ DoneContextStep
    \/ ContextDone
    \/ Watcher
    \/ ServerAdvance
    \/ HasMoreCall
    \/ FetchOneCall
    \/ RowMapCall
    \/ RowSliceCall
    \/ DescriptionCall
    \/ CancelCall
    \/ PollCall
    \/ FinishedCall
    \/ CloseCall

Spec == Init /\ [][Next]_vars

\* a caller that only executes statements, one after the other
ExecuteNext ==
    \/ ExecuteCall
    \/ WaitStep
    \/ DoneContextStep
    \/ ContextDone
    \/ Watcher
    \/ ServerAdvance

\* The scheduling a synchronous Execute relies on: the goroutine of the
\* caller keeps running (the loop of WaitForCompletion sleeps for the poll
\* interval and polls again, and a poll the server can answer is answered in
\* the end; Execute goes on to handleDoneContext), and so does the watcher
\* goroutine.  Nothing is assumed of the server's progress or of the caller's
\* later calls.
FairSpec ==
    /\ Init /\ [][ExecuteNext]_vars
    /\ WF_vars(WaitTurn("ok"))
    /\ WF_vars(Watcher)
    /\ WF_vars(DoneContextStep)

\* ------------------------------------------------------ the log channel
\* the replies to the FetchResults of FetchLogs: a transport failure, a reply
\* without results, a batch of lines
LogOutcomes(sent) ==
    {"rpcErr"} \cup (IF Len(sent) < MaxLogs THEN {"noResults", "batch"} ELSE {})

\* FetchLogs that fetches a batch and returns no lines
FetchLogsLosesBatch(w, ol) ==
    CASE ol = "rpcErr" ->
           [w |-> [w EXCEPT !.cur.Err = ErrRpc], logs |-> NilLogs, served |-> <<>>]
      [] ol = "noResults" ->
           [w |-> [w EXCEPT !.cur.Err = NoErr], logs |-> NilLogs, served |-> <<>>]
      [] OTHER ->
           [w |-> [w EXCEPT !.srv.logs = w.srv.logs + 1],
            logs |-> NilLogs, served |-> <<w.srv.logs + 1>>]

\* hive.go:675 FetchLogs: the batch it returns (the server numbers its
\* batches in the order it serves them) and the batch the server served
FetchLogs(w, ol) ==
    CASE ol = "rpcErr" ->
           [w |-> [w EXCEPT !.cur.Err = ErrRpc], logs |-> NilLogs, served |-> <<>>]
      [] ol = "noResults" ->
           [w |-> [w EXCEPT !.cur.Err = NoErr], logs |-> NilLogs, served |-> <<>>]
      [] OTHER ->
           [w |-> [w EXCEPT !.srv.logs = w.srv.logs + 1],
            logs |-> w.srv.logs + 1, served |-> <<w.srv.logs + 1>>]

\* the caller attaches a channel to the cursor between two calls
AttachLogs ==
    /\ pc = "idle"
    /\ cursor.Logs = NilChannel
    /\ cursor' = [cursor EXCEPT !.Logs = "open"]
    /\ UNCHANGED <<server, fetchSize, pc, ctxDone, contextDone, watcher, call,
                   returned, delivered, closeSent, clean, probe, poll>>

\* hive.go:510-545 and 577-595 Execute after executeAsync, on a cursor with a
\* log channel: one poll of WaitForCompletion and the fetch of the log lines
\* that follows it, in the loop (539-543) or, the operation finished, in
\* Execute (588-593); the send to the channel is the step LogSend
LogWaitTurn(o) ==
    /\ pc = "wfc"
    /\ cursor.Logs # NilChannel
    /\ o \in HandleOutcomes(server, cursor.operationHandle)
    /\ \E reply \in (IF o = "ok" THEN OperationMessages(server) ELSE {NoMessages}),
          ol \in LogOutcomes(call.logsSent) :
          LET failed(c) ==
                  /\ cursor' = IF c.state = _ERROR
                               THEN [c EXCEPT !.Err = ErrProbablyContext] ELSE c
                  /\ pc' = "idle"
                  /\ UNCHANGED server
              logFailed(to, fl) ==
                  /\ cursor' = IF to = "break"
                               THEN [fl.w.cur EXCEPT !.state = _ASYNC_ENDED]
                               ELSE fl.w.cur
                  /\ pc' = "idle"
                  /\ server' = fl.w.srv
              fetched(to, fl) ==
                  IF fl.w.cur.Err # NoErr
                  THEN /\ logFailed(to, fl)
                       /\ call' = call
                  ELSE /\ cursor' = fl.w.cur
                       /\ server' = fl.w.srv
                       /\ pc' = IF to = "break" THEN "flushSend" ELSE "loopSend"
                       /\ call' = [call EXCEPT !.pending = fl.logs,
                                               !.logsFetched = call.logsFetched \o fl.served,
                                               !.polled = IF to = "break"
                                                          THEN <<[state |-> server.opState,
                                                                  reply |-> reply]>>
                                                          ELSE call.polled]
              polled(r) ==
                  IF r.w.cur.Err # NoErr
                  THEN /\ failed(r.w.cur)
                       /\ call' = IF r.to = "break"
                                  THEN [call EXCEPT !.polled = <<[state |-> server.opState,
                                                                  reply |-> reply]>>]
                                  ELSE call
                  ELSE fetched(r.to, FetchLogs(r.w, ol))
          IN /\ polled(WaitForCompletion([World EXCEPT !.rpc = call.rpc], o, FALSE, reply))
             /\ watcher' = (watcher /\ pc' = "loopSend")
             /\ ctxDone' = (ctxDone /\ pc' # "idle")
             /\ contextDone' = (contextDone /\ pc' # "idle")
             /\ UNCHANGED <<fetchSize, returned, delivered, closeSent, clean, probe, poll>>

LogWaitStep == \E o \in RpcOutcomes : LogWaitTurn(o)

\* a send that leaves nothing in the channel
logSendDrops(channel, logs) == channel

\* hive.go:544 and 594, c.Logs <- logs: the channel as the sequence of the
\* slices sent to it
logSend(channel, logs) == Append(channel, logs)

\* The reader of the channel takes the batch the cursor is sending.  In the
\* loop of WaitForCompletion the sleep and the read of the watcher's flag
\* follow (547-555); in Execute the state is set and Execute returns (597).
LogSend ==
    /\ pc \in {"loopSend", "flushSend"}
    /\ call' = [call EXCEPT !.logsSent = logSend(call.logsSent, call.pending),
                            !.pending = NilLogs]
    /\ IF pc = "flushSend"
       THEN /\ cursor' = [cursor EXCEPT !.state = _ASYNC_ENDED]
            /\ pc' = "idle"
            /\ watcher' = FALSE
            /\ ctxDone' = FALSE
            /\ contextDone' = FALSE
       ELSE IF contextDone
       THEN /\ cursor' = [cursor EXCEPT !.Err = ErrContextExec, !.state = _CONTEXT_DONE]
            /\ pc' = "hdc"
            /\ watcher' = FALSE
            /\ UNCHANGED <<ctxDone, contextDone>>
       ELSE /\ pc' = "wfc"
            /\ UNCHANGED <<cursor, watcher, ctxDone, contextDone>>
    /\ UNCHANGED <<server, fetchSize, returned, delivered, closeSent, clean, probe, poll>>

\* a caller that executes statements and reads their log lines from a channel
LogNext ==
    \/ ExecuteNext
    \/ AttachLogs
    \/ LogWaitStep
    \/ LogSend

LogSpec == Init /\ [][LogNext]_vars

\* The scheduling a synchronous Execute with a log channel relies on: the
\* caller's goroutine and the watcher keep running, as in FairSpec.  Nothing
\* is assumed of the reader of the channel: a send completes only when the
\* channel has room or somebody receives, and LogSend is that step.
FairLogSpec ==
    /\ LogSpec
    /\ WF_vars(WaitTurn("ok"))
    /\ WF_vars(LogWaitTurn("ok"))
    /\ WF_vars(Watcher)
    /\ WF_vars(DoneContextStep)

\* ------------------------------------------------- functions on values
MaxBitmap == 2      \* most bytes of a null bitmap given to isNull
MaxCells == 10      \* most rows of a column given to FetchOne

\* x & y on bytes
RECURSIVE BitAnd(_, _)
BitAnd(x, y) ==
    IF x = 0 \/ y = 0 THEN 0
    ELSE (x % 2) * (y % 2) + 2 * BitAnd(x \div 2, y \div 2)

\* x << n on a byte
ShiftLeft(x, n) == (x * 2^n) % 256

\* isNull that counts the bits of a byte from its most significant one
isNullMsbFirst(nulls, position) ==
    LET index == position \div 8
    IN IF Len(nulls) > index
       THEN BitAnd(nulls[index + 1], ShiftLeft(1, 7 - (position % 8))) # 0
       ELSE FALSE

\* hive.go:1180 isNull
isNull(nulls, position) ==
    LET index == position \div 8
    IN IF Len(nulls) > index
       THEN BitAnd(nulls[index + 1], ShiftLeft(1, position % 8)) # 0
       ELSE FALSE

\* the bytes and the bitmaps isNull is tried on, and the positions
Bytes == {0, 1, 4, 130, 255}

Bitmaps == UNION {[1..n -> Bytes] : n \in 0..MaxBitmap}

Positions == 0..(8 * MaxBitmap + 7)

\* each behaviour of the functions on values applies one of them once
IsNullStep ==
    /\ probe = NoProbe
    /\ \E nulls \in Bitmaps, k \in Positions :
          probe' = [op |-> "isNull", nulls |-> nulls, k |-> k,
                    result |-> isNull(nulls, k)]
    /\ UNCHANGED sessionVars

\* the value the tables hold in row r of column j, when not NULL
CellValue(j, r) == 10 * j + r

\* The server's side of a column of n rows whose rows in nullAt (0-based) are
\* NULL: the value vector holds the zero value for a NULL row; the bitmap
\* holds bit r % 8 of byte r / 8 for every NULL row r, and ends with its last
\* non-zero byte unless the server sends it in full.
RECURSIVE BitsFrom(_, _, _)
BitsFrom(nullAt, base, i) ==
    IF i > 7 THEN 0
    ELSE (IF base + i \in nullAt THEN 2^i ELSE 0) + BitsFrom(nullAt, base, i + 1)

NullBitmap(n, nullAt, full) ==
    LET last == CHOOSE r \in nullAt : \A q \in nullAt : q <= r
        len == IF full THEN (n + 7) \div 8
               ELSE IF nullAt = {} THEN 0 ELSE last \div 8 + 1
    IN [b \in 1..len |-> BitsFrom(nullAt, 8 * (b - 1), 0)]

ServerColumn(j, n, nullAt, full) ==
    [values |-> [r \in 1..n |-> IF r - 1 \in nullAt THEN 0 ELSE CellValue(j, r)],
     nulls |-> NullBitmap(n, nullAt, full)]

\* the NULL rows of a column of n rows: none, one or two of them
NullSets(n) == {S \in SUBSET (0..(n - 1)) : Cardinality(S) <= 2}

\* The destinations a caller gives FetchOne for an INT column: nil; a *int32,
\* the variable it points to holding v; a **int32, the pointer it points to
\* nil or pointing to a variable ("old") that holds v; pointers of another
\* type.
NilDest == [kind |-> "nil"]

Int32Dests ==
    {NilDest, [kind |-> "*int32", v |-> 99],
     [kind |-> "**int32", p |-> "nil", v |-> 0],
     [kind |-> "**int32", p |-> "old", v |-> 99],
     [kind |-> "*bool"], [kind |-> "**string"]}

\* the I32 branch of FetchOne with a **int32 that is given a new variable
\* for every value
FetchOneI32AlwaysAllocates(dest, column, columnIndex) ==
    LET value == column.values[columnIndex + 1]
    IN CASE dest = NilDest -> [dest |-> [kind |-> "value", v |-> value], err |-> NoErr]
         [] dest.kind = "*int32" -> [dest |-> [dest EXCEPT !.v = value], err |-> NoErr]
         [] dest.kind = "**int32" ->
              [dest |-> IF isNull(column.nulls, columnIndex)
                        THEN [dest EXCEPT !.p = "nil"]
                        ELSE [dest EXCEPT !.p = "new", !.v = value],
               err |-> NoErr]
         [] OTHER -> [dest |-> dest, err |-> ErrDataType]

\* hive.go:1050-1073, the I32 branch of the loop of FetchOne: what it leaves
\* in destination dest for row columnIndex of an INT column
FetchOneI32(dest, column, columnIndex) ==
    LET value == column.values[columnIndex + 1]
    IN CASE dest = NilDest -> [dest |-> [kind |-> "value", v |-> value], err |-> NoErr]
         [] dest.kind = "*int32" -> [dest |-> [dest EXCEPT !.v = value], err |-> NoErr]
         [] dest.kind = "**int32" ->
              [dest |-> IF isNull(column.nulls, columnIndex)
                        THEN [dest EXCEPT !.p = "nil"]
                        ELSE IF dest.p = "nil"
                        THEN [dest EXCEPT !.p = "new", !.v = value]
                        ELSE [dest EXCEPT !.v = value],
               err |-> NoErr]
         [] OTHER -> [dest |-> dest, err |-> ErrDataType]

FetchOneI32Step ==
    /\ probe = NoProbe
    /\ \E n \in 1..MaxCells, full \in BOOLEAN, dest \in Int32Dests :
       \E nullAt \in NullSets(n), k \in 0..(n - 1) :
          LET filled(column) ==
                  probe' = [op |-> "FetchOne", n |-> n, nullAt |-> nullAt, k |-> k,
                            dest |-> dest, column |-> column,
                            out |-> FetchOneI32(dest, column, k)]
          IN filled(ServerColumn(1, n, nullAt, full))
    /\ UNCHANGED sessionVars

\* hive.go:985-1178, the loop of FetchOne over the columns from column i on
\* and the increment that follows it: every column of the tables is an INT
\* column, so each turn is the I32 branch; a destination is written in the
\* turn of its column, and the first destination of another type ends the
\* call
RECURSIVE fetchOneLoop(_, _, _, _)
fetchOneLoop(queue, columnIndex, dests, i) ==
    LET turn == FetchOneI32(dests[i], queue[i], columnIndex)
    IN IF i > Len(queue)
       THEN [dests |-> dests, err |-> NoErr, columnIndex |-> columnIndex + 1]
       ELSE IF turn.err # NoErr
       THEN [dests |-> dests, err |-> turn.err, columnIndex |-> columnIndex]
       ELSE fetchOneLoop(queue, columnIndex, [dests EXCEPT ![i] = turn.dest], i + 1)

FetchOneLoopStep ==
    /\ probe = NoProbe
    /\ \E dests \in [1..NumCols -> Int32Dests], n \in 1..MaxFetchSize, full \in BOOLEAN :
       \E nullAt \in [1..NumCols -> SUBSET (0..(n - 1))], k \in 0..(n - 1) :
          LET filled(queue) ==
                  probe' = [op |-> "FetchOneRow", dests |-> dests, nullAt |-> nullAt,
                            k |-> k, queue |-> queue,
                            out |-> fetchOneLoop(queue, k, dests, 1)]
          IN filled([j \in 1..NumCols |-> ServerColumn(j, n, nullAt[j], full)])
    /\ UNCHANGED sessionVars

\* hive.go:744-835, the column types the loop of RowMap knows
RowMapTypes ==
    {"BOOLEAN_TYPE", "TINYINT_TYPE", "SMALLINT_TYPE", "INT_TYPE", "BIGINT_TYPE",
     "FLOAT_TYPE", "DOUBLE_TYPE", "STRING_TYPE", "VARCHAR_TYPE", "CHAR_TYPE",
     "TIMESTAMP_TYPE", "DATE_TYPE", "BINARY_TYPE", "ARRAY_TYPE", "MAP_TYPE",
     "STRUCT_TYPE", "UNION_TYPE", "DECIMAL_TYPE"}

\* hive.go:742-848, the loop of RowMap over the columns and what follows it:
\* the map after the first i columns, an entry being <<>> for nil and <<v>>
\* for the value v
RECURSIVE rowMapUpTo(_, _, _, _)
rowMapUpTo(d, queue, columnIndex, i) ==
    LET entry == IF isNull(queue[i].nulls, columnIndex) THEN <<>>
                 ELSE <<queue[i].values[columnIndex + 1]>>
        put(m) ==
            IF d[i].type \notin RowMapTypes THEN m
            ELSE [name \in DOMAIN m \cup {d[i].name} |->
                     IF name = d[i].name THEN entry ELSE m[name]]
    IN IF i = 0 THEN <<>> ELSE put(rowMapUpTo(d, queue, columnIndex, i - 1))

rowMap(d, queue, columnIndex) ==
    [m |-> rowMapUpTo(d, queue, columnIndex, Len(queue)),
     columnIndex |-> columnIndex + 1, err |-> NoErr]

\* The result sets RowMap is tried on: NumCols columns named "a" or "b", of
\* type INT or of the type of the literal NULL, which RowMap does not know
\* and whose rows are all NULL; one or two rows.
ColumnNames == {"a", "b"}

ColumnTypes == {"INT_TYPE", "NULL_TYPE"}

RowMapStep ==
    /\ probe = NoProbe
    /\ \E names \in [1..NumCols -> ColumnNames], types \in [1..NumCols -> ColumnTypes],
          n \in 1..MaxFetchSize, full \in BOOLEAN :
       \E nullAt \in [1..NumCols -> SUBSET (0..(n - 1))], k \in 0..(n - 1) :
          LET d == [j \in 1..NumCols |-> [name |-> names[j], type |-> types[j]]]
              mapped(queue) ==
                  probe' = [op |-> "RowMap", d |-> d, nullAt |-> nullAt, k |-> k,
                            queue |-> queue, out |-> rowMap(d, queue, k)]
          IN /\ \A j \in 1..NumCols : types[j] = "NULL_TYPE" => nullAt[j] = 0..(n - 1)
             /\ mapped([j \in 1..NumCols |-> ServerColumn(j, n, nullAt[j], full)])
    /\ UNCHANGED sessionVars

ValueNext ==
    \/ IsNullStep
    \/ FetchOneI32Step
    \/ FetchOneLoopStep
    \/ RowMapStep

\* isNull, the store of FetchOne and the map of RowMap, applied to inputs
\* drawn from the sets above
ValueSpec == Init /\ [][ValueNext]_vars

\* ------------------------------------------------------- the connection
ErrTransportClose == New("transport close error")

\* safeStatus(status).String() in the text of an error
ErrCloseSession(status) ==
    [error |-> "Error closing the session: ", status |-> safeStatus(status)]

\* the statuses a reply to CloseSession carries; a failed RPC has no reply,
\* therefore a status that is never read
SessionStatuses(o) ==
    CASE o = "ok" ->
           {[statusCode |-> s, errorCode |-> <<>>, errorMessage |-> <<>>] :
               s \in {"SUCCESS_STATUS", "SUCCESS_WITH_INFO_STATUS"}}
      [] o = "badStatus" ->
           {NilStatus,
            [statusCode |-> "ERROR_STATUS", errorCode |-> <<>>, errorMessage |-> <<>>],
            [statusCode |-> "INVALID_HANDLE_STATUS", errorCode |-> <<>>,
             errorMessage |-> <<"Invalid SessionHandle">>]}
      [] OTHER -> {NilStatus}

\* Connection.Close that returns the failure of CloseSession at once
ConnectionCloseLeavesTransport(oc, status, ot) ==
    IF oc = "rpcErr"
    THEN [trace |-> <<"CloseSession">>, err |-> ErrRpc]
    ELSE IF ~success(safeStatus(status))
    THEN [trace |-> <<"CloseSession">>, err |-> ErrCloseSession(status)]
    ELSE [trace |-> <<"CloseSession", "transport.Close">>,
          err |-> IF ot # "ok" THEN ErrTransportClose ELSE NoErr]

\* hive.go:445 Connection.Close: what it does, in order, and what it returns.
\* oc and status are the reply to CloseSession, ot is how the transport closes.
ConnectionClose(oc, status, ot) ==
    [trace |-> <<"CloseSession", "transport.Close">>,
     err |-> IF ot # "ok" THEN ErrTransportClose
             ELSE IF oc = "rpcErr" THEN ErrRpc
             ELSE IF ~success(safeStatus(status)) THEN ErrCloseSession(status)
             ELSE NoErr]

CloseOutcomes == {"ok", "fail"}

\* ---- Connect
ErrDial == New("dial error")
ErrUsername == New("Can't determine the username")
ErrTransport == New("transport error")

TransportModes == {"binary", "http", "socket"}
Auths == {"NOSASL", "NONE", "LDAP", "CUSTOM", "KERBEROS", "DIGEST-MD5", "PLAIN"}
Databases == {"", "datbas"}

\* hive.go:254-342 the transport innerConnect builds for a transport mode and
\* an auth; "panic" where it calls panic
transportOf(mode, auth) ==
    IF mode = "http"
    THEN (CASE auth = "NONE" -> "http"
            [] auth = "KERBEROS" -> "http Negotiate"
            [] OTHER -> "panic")
    ELSE IF mode = "binary"
    THEN (CASE auth = "NOSASL" -> "buffered"
            [] auth \in {"NONE", "LDAP", "CUSTOM"} -> "PLAIN"
            [] auth = "KERBEROS" -> "GSSAPI"
            [] auth = "DIGEST-MD5" -> "DIGEST-MD5"
            [] OTHER -> "panic")
    ELSE "panic"

\* the polls of one WaitForCompletion: the state the server reports at each
\* poll, the outcome of the poll and the messages of the reply; the
\* operation runs until the last poll, which ends the wait
MaxPolls == 2       \* most polls of the USE statement
StillRunning == [state |-> "RUNNING_STATE", o |-> "ok", reply |-> NoMessages]
PollEnds ==
    {[state |-> "FINISHED_STATE", o |-> "ok", reply |-> NoMessages]}
        \cup {[state |-> "ERROR_STATE", o |-> "ok", reply |-> r] : r \in FailureMessages}
        \cup {[state |-> "RUNNING_STATE", o |-> o, reply |-> NoMessages] :
                 o \in {"rpcErr", "badStatus"}}
PollRuns ==
    {[i \in 1..n |-> IF i < n THEN StillRunning ELSE e] : n \in 1..MaxPolls, e \in PollEnds}

\* hive.go:493 WaitForCompletion, all its turns, under a context that is
\* never done: the world when it returns
RECURSIVE WaitForCompletionLoop(_, _, _)
WaitForCompletionLoop(w, polls, i) ==
    LET turned(r) ==
            IF r.to = "loop" /\ i < Len(polls)
            THEN WaitForCompletionLoop(r.w, polls, i + 1) ELSE r.w
    IN turned(WaitForCompletion([w EXCEPT !.srv.opState = polls[i].state],
                                polls[i].o, FALSE, polls[i].reply))

\* hive.go:561 Exec on a cursor without log channel, under
\* context.Background(): the world when it returns
Exec(w, oe, status, polls) ==
    LET ends(c) ==
            IF c.Err = NoErr THEN [c EXCEPT !.state = _ASYNC_ENDED]
            ELSE IF c.state = _ERROR THEN [c EXCEPT !.Err = ErrProbablyContext]
            ELSE c
        waited(x) == [x EXCEPT !.cur = ends(x.cur)]
        submitted(x) ==
            IF x.cur.Err # NoErr THEN x ELSE waited(WaitForCompletionLoop(x, polls, 1))
    IN submitted(executeAsync(w, "ok", oe, FALSE, status))

Names(rpc) == [i \in 1..Len(rpc) |-> rpc[i].name]

\* innerConnect that does not close the cursor of the USE statement
innerConnectLeavesCursor(mode, auth, database, in) ==
    LET failed(trace, err) == [trace |-> trace, err |-> err, conn |-> FALSE, panic |-> FALSE]
        used(w) ==
            [trace |-> <<"dial", "transport.Open", "OpenSession">> \o Names(w.rpc),
             err |-> w.cur.Err, conn |-> w.cur.Err = NoErr, panic |-> FALSE]
        fresh == [cur |-> NewCursor, srv |-> NewSession, rpc |-> <<>>, fetches |-> <<>>,
                  parsed |-> <<>>, out |-> <<>>, panic |-> FALSE]
    IN IF in.od # "ok" THEN failed(<<"dial">>, ErrDial)
       ELSE IF in.ou # "ok" THEN failed(<<"dial">>, ErrUsername)
       ELSE IF transportOf(mode, auth) = "panic"
       THEN [trace |-> <<"dial">>, err |-> NoErr, conn |-> FALSE, panic |-> TRUE]
       ELSE IF in.ot # "ok" THEN failed(<<"dial", "transport.Open">>, ErrTransport)
       ELSE IF in.oo = "rpcErr"
       THEN failed(<<"dial", "transport.Open", "OpenSession">>, ErrRpc)
       ELSE IF database = ""
       THEN [trace |-> <<"dial", "transport.Open", "OpenSession">>, err |-> NoErr,
             conn |-> TRUE, panic |-> FALSE]
       ELSE used(Exec(fresh, in.oe, in.status, in.polls))

\* hive.go:196 innerConnect: what it does, in order (the polls left out), the
\* error and whether a connection it returns, or that it panics.  in holds
\* the outcomes of the dial, of the look-up of the user name, of the opening
\* of the transport, of OpenSession (whose status is never read), and of the
\* USE statement and the close of its cursor.
innerConnect(mode, auth, database, in) ==
    LET failed(trace, err) == [trace |-> trace, err |-> err, conn |-> FALSE, panic |-> FALSE]
        closed(w, err) ==
            [trace |-> <<"dial", "transport.Open", "OpenSession">> \o Names(w.rpc),
             err |-> err, conn |-> err = NoErr, panic |-> FALSE]
        used(w) == closed(Close(w, in.oclose), w.cur.Err)
        fresh == [cur |-> NewCursor, srv |-> NewSession, rpc |-> <<>>, fetches |-> <<>>,
                  parsed |-> <<>>, out |-> <<>>, panic |-> FALSE]
    IN IF in.od # "ok" THEN failed(<<"dial">>, ErrDial)
       ELSE IF in.ou # "ok" THEN failed(<<"dial">>, ErrUsername)
       ELSE IF transportOf(mode, auth) = "panic"
       THEN [trace |-> <<"dial">>, err |-> NoErr, conn |-> FALSE, panic |-> TRUE]
       ELSE IF in.ot # "ok" THEN failed(<<"dial", "transport.Open">>, ErrTransport)
       ELSE IF in.oo = "rpcErr"
       THEN failed(<<"dial", "transport.Open", "OpenSession">>, ErrRpc)
       ELSE IF database = ""
       THEN [trace |-> <<"dial", "transport.Open", "OpenSession">>, err |-> NoErr,
             conn |-> TRUE, panic |-> FALSE]
       ELSE used(Exec(fresh, in.oe, in.status, in.polls))

\* the caller connects; the replies to the USE statement are drawn only
\* when innerConnect gets as far as sending it
ConnectStep ==
    /\ probe = NoProbe
    /\ \E mode \in TransportModes, auth \in Auths, database \in Databases,
          od \in CloseOutcomes, ou \in CloseOutcomes, ot \in CloseOutcomes,
          oo \in RpcOutcomes :
       \E oe \in (IF /\ od = "ok" /\ ou = "ok" /\ ot = "ok" /\ oo # "rpcErr"
                      /\ transportOf(mode, auth) # "panic" /\ database # ""
                   THEN ExecOutcomes(NewSession) ELSE {"rpcErr"}) :
       \E status \in ExecStatuses(oe),
          polls \in (IF oe = "ok" THEN PollRuns ELSE {<<>>}),
          oclose \in (IF oe = "ok" THEN RpcOutcomes ELSE {"ok"}) :
          LET in == [od |-> od, ou |-> ou, ot |-> ot, oo |-> oo, oe |-> oe,
                     status |-> status, polls |-> polls, oclose |-> oclose]
              connected(result) ==
                  probe' = [op |-> "Connect", mode |-> mode, auth |-> auth,
                            database |-> database, in |-> in, result |-> result]
          IN connected(innerConnect(mode, auth, database, in))
    /\ UNCHANGED sessionVars

\* the caller closes a connection
ConnectionCloseStep ==
    /\ probe = NoProbe
    /\ \E oc \in RpcOutcomes, ot \in CloseOutcomes :
       \E status \in SessionStatuses(oc) :
          probe' = [op |-> "Connection.Close", oc |-> oc, status |-> status, ot |-> ot,
                    result |-> ConnectionClose(oc, status, ot)]
    /\ UNCHANGED sessionVars

\* the cookies of a request, as req.Cookies() lists them
MaxCookies == 3     \* most cookies of one request
CookieNames == {"hive.server2.auth", "JSESSIONID"}
CookieValues == {"v1", "v2"}
Cookie(name, value) == [Name |-> name, Value |-> value]
CookieLists ==
    UNION {[1..n -> {Cookie(k, v) : k \in CookieNames, v \in CookieValues}] :
              n \in 0..MaxCookies}

\* a cookieMap that keeps the first value seen for a name
RECURSIVE cookieMapKeepsFirst(_, _)
cookieMapKeepsFirst(cookies, i) ==
    IF i = 0 THEN [k \in {} |-> ""]
    ELSE LET put(m) ==
                 [k \in DOMAIN m \cup {cookies[i].Name} |->
                     IF k \in DOMAIN m THEN m[k] ELSE cookies[i].Value]
         IN put(cookieMapKeepsFirst(cookies, i - 1))

\* hive.go:393-396 cookieMap after the first i cookies of the request
RECURSIVE cookieMap(_, _)
cookieMap(cookies, i) ==
    IF i = 0 THEN [k \in {} |-> ""]
    ELSE LET put(m) ==
                 [k \in DOMAIN m \cup {cookies[i].Name} |->
                     IF k = cookies[i].Name THEN cookies[i].Value ELSE m[k]]
         IN put(cookieMap(cookies, i - 1))

\* the orders in which a range over a Go map can visit its keys
KeyOrders(m) ==
    {order \in [1..Cardinality(DOMAIN m) -> DOMAIN m] :
        \A i, j \in DOMAIN order : order[i] = order[j] => i = j}

\* hive.go:392 CookieDedupTransport.RoundTrip: the cookies of the request it
\* hands to the underlying RoundTripper, the Cookie header emptied and then
\* one AddCookie for every entry of cookieMap, in the order the range takes
RoundTrip(cookies, order) ==
    LET m == cookieMap(cookies, Len(cookies))
    IN [i \in 1..Len(order) |-> Cookie(order[i], m[order[i]])]

\* the HTTP client sends a request through the middleware
RoundTripStep ==
    /\ probe = NoProbe
    /\ \E cookies \in CookieLists :
       \E order \in KeyOrders(cookieMap(cookies, Len(cookies))) :
          probe' = [op |-> "RoundTrip", cookies |-> cookies,
                    forwarded |-> RoundTrip(cookies, order)]
    /\ UNCHANGED sessionVars

\* hive.go:105 ConnectZookeeper.  A registration (a child of the namespace
\* node) is drawn as the kind of its text and the way a connection to the
\* server it names would go; a server is known by the place of its
\* registration in the list zookeeper returns.
MaxServers == 3     \* most registrations under the namespace
ErrZookeeper == New("zk: could not connect to a server")
ErrAllUnavailable == New("all Hive servers of the specified Zookeeper namespace are unavailable")
ErrNoneRegistered == New("no Hive server is registered in the specified Zookeeper namespace")

\* "serverUri=host:port;..." with a numeric port, with a port that is no
\* number, and a registration without a well-formed serverUri
InfoKinds == {"hostPort", "textPort", "noUri"}

\* the server accepts the connection, cannot be dialled, or fails OpenSession
Attempts == {"up", "down", "refused"}

\* the outcomes innerConnect meets at a server
AttemptIn(a) ==
    [od |-> IF a = "down" THEN "fail" ELSE "ok", ou |-> "ok", ot |-> "ok",
     oo |-> IF a = "refused" THEN "rpcErr" ELSE "ok", oe |-> "rpcErr",
     status |-> NilStatus, polls |-> <<>>, oclose |-> "ok"]

\* the configurations of the caller: a pair innerConnect supports and one it
\* does not
ZkConfigurations == {<<"binary", "NONE">>, <<"http", "LDAP">>}

\* hive.go:152 parseHiveServer2Info: the registrations with a serverUri of
\* the form host:port, both parts non-empty, in the order of the list
parseHiveServer2Info(hsInfos) ==
    SelectSeq([i \in 1..Len(hsInfos) |-> i], LAMBDA i : hsInfos[i].kind # "noUri")

\* the orders rand.Shuffle can leave the nodes in
Shuffles(nodes) ==
    {p \in [1..Len(nodes) -> 1..Len(nodes)] :
        \A i, j \in 1..Len(nodes) : i # j => p[i] # p[j]}

\* hive.go:124-136, the loop over the shuffled nodes from node i on: the
\* servers innerConnect was called for, and the connection or the error
RECURSIVE tryNodes(_, _, _, _, _)
tryNodes(hsInfos, cfg, nodes, i, tried) ==
    IF i > Len(nodes)
    THEN [conn |-> 0, err |-> ErrAllUnavailable, tried |-> tried, panic |-> FALSE]
    ELSE IF hsInfos[nodes[i]].kind = "textPort"
    THEN tryNodes(hsInfos, cfg, nodes, i + 1, tried)
    ELSE LET connected(r) ==
                 IF r.panic
                 THEN [conn |-> 0, err |-> NoErr, tried |-> Append(tried, nodes[i]),
                       panic |-> TRUE]
                 ELSE IF r.err # NoErr
                 THEN tryNodes(hsInfos, cfg, nodes, i + 1, Append(tried, nodes[i]))
                 ELSE [conn |-> nodes[i], err |-> NoErr,
                       tried |-> Append(tried, nodes[i]), panic |-> FALSE]
         IN connected(innerConnect(cfg[1], cfg[2], "", AttemptIn(hsInfos[nodes[i]].attempt)))

\* hive.go:105-143 ConnectZookeeper: oz is the outcome of zk.Connect and of
\* the listing of the children, shuffle the permutation rand.Shuffle applies
ConnectZookeeper(oz, hsInfos, cfg, shuffle) ==
    LET nodes == parseHiveServer2Info(hsInfos)
    IN IF oz # "ok"
       THEN [conn |-> 0, err |-> ErrZookeeper, tried |-> <<>>, panic |-> FALSE]
       ELSE IF Len(hsInfos) = 0
       THEN [conn |-> 0, err |-> ErrNoneRegistered, tried |-> <<>>, panic |-> FALSE]
       ELSE tryNodes(hsInfos, cfg, [i \in 1..Len(nodes) |-> nodes[shuffle[i]]], 1, <<>>)

\* the caller connects through zookeeper
ZookeeperStep ==
    /\ probe = NoProbe
    /\ \E oz \in CloseOutcomes, n \in 0..MaxServers, cfg \in ZkConfigurations :
       \E hsInfos \in [1..n -> [kind : InfoKinds, attempt : Attempts]] :
       \E shuffle \in Shuffles(parseHiveServer2Info(hsInfos)) :
          probe' = [op |-> "ConnectZookeeper", oz |-> oz, hsInfos |-> hsInfos,
                    cfg |-> cfg, shuffle |-> shuffle,
                    result |-> ConnectZookeeper(oz, hsInfos, cfg, shuffle)]
    /\ UNCHANGED sessionVars

ConnectionNext ==
    \/ ConnectStep
    \/ ConnectionCloseStep
    \/ RoundTripStep
    \/ ZookeeperStep

\* the calls on a connection, each given replies drawn from the sets above
ConnectionSpec == Init /\ [][ConnectionNext]_vars

\* ------------------------------------------- the goroutines of the fetch
\* hive.go:1241-1306 pollUntilData, goroutine by goroutine.  The caller's
\* position is `pc`: "select" (the outer select), "stopLock" (about to take
\* stopLock), "setDone" (holding it), "wait" (the inner select) and "tail"
\* (past the select).  The worker's position is poll.worker: "lock", "check"
\* (holding stopLock), "fetch", "rpc" (FetchResults in flight), "send"
\* (blocked in rowsAvailable <- poll.val[1]), "close" (the deferred close of
\* the channel is all that is left) and "exited".

\* hive.go:1223, hive.go:974 and 717-719: what the call does to the cursor
\* before HasMore looks at it
enter(name, c) ==
    IF name = "FetchOne" /\ c.totalRows = c.columnIndex
    THEN [c EXCEPT !.Err = NoErr, !.queue = <<>>]
    ELSE [c EXCEPT !.Err = NoErr]

\* hive.go:1224 and 1230, and 718: the call goes to the server
needsFetch(name, c) ==
    /\ name = "FetchOne" => c.totalRows = c.columnIndex
    /\ \/ c.response = NilResponse /\ c.state # _FINISHED
       \/ c.totalRows = c.columnIndex /\ c.state # _FINISHED

\* hive.go:1242-1245: the channel, the mutex, the flag, and the worker started
\* under a context that is done already (ctx0) or not
PollBegin ==
    /\ pc = "idle"
    /\ \E name \in {"HasMore", "FetchOne"}, ctx0 \in BOOLEAN :
          /\ needsFetch(name, cursor)
          /\ cursor' = enter(name, cursor)
          /\ poll' = [NoPolling EXCEPT !.name = name, !.active = TRUE,
                                       !.ctx0 = ctx0, !.ctx = ctx0, !.worker = "lock",
                                       !.sound = poll.sound]
    /\ pc' = "select"
    /\ UNCHANGED <<server, fetchSize, ctxDone, contextDone, watcher, call,
                   returned, delivered, closeSent, clean, probe>>

\* the context of the running call is cancelled or reaches its deadline; the
\* call reads it in its select only
PollContextDone ==
    /\ pc = "select"
    /\ ~poll.ctx
    /\ poll' = [poll EXCEPT !.ctx = TRUE]
    /\ UNCHANGED <<cursor, server, fetchSize, pc, ctxDone, contextDone, watcher, call,
                   returned, delivered, closeSent, clean, probe>>

\* hive.go:1247 stopLock.Lock() of the worker
WorkerLock ==
    /\ poll.worker = "lock"
    /\ poll.lock = "free"
    /\ poll' = [poll EXCEPT !.worker = "check", !.lock = "worker"]
    /\ UNCHANGED <<cursor, server, fetchSize, pc, ctxDone, contextDone, watcher, call,
                   returned, delivered, closeSent, clean, probe>>

\* hive.go:1248-1253: the worker reads the flag and gives the mutex back
WorkerCheck ==
    /\ poll.worker = "check"
    /\ poll' = IF poll.done
               THEN [poll EXCEPT !.worker = "send", !.lock = "free", !.val = <<NoErr>>]
               ELSE [poll EXCEPT !.worker = "fetch", !.lock = "free"]
    /\ UNCHANGED <<cursor, server, fetchSize, pc, ctxDone, contextDone, watcher, call,
                   returned, delivered, closeSent, clean, probe>>

\* hive.go:1255-1259: the worker sends FetchResults
WorkerFetch ==
    /\ poll.worker = "fetch"
    /\ poll' = [poll EXCEPT !.worker = "rpc", !.inflight = poll.inflight + 1]
    /\ UNCHANGED <<cursor, server, fetchSize, pc, ctxDone, contextDone, watcher, call,
                   returned, delivered, closeSent, clean, probe>>

\* hive.go:1259-1281: FetchResults returns and the worker parses the reply
\* into the cursor; after a reply that leaves the queue empty it sleeps and
\* takes the next turn of its loop
WorkerReply ==
    /\ poll.worker = "rpc"
    /\ \E o \in FetchOutcomes(server, cursor.operationHandle) :
       \E b \in (IF o = "batch" THEN BOOLEAN ELSE {FALSE}) :
          LET worked(r) ==
                  /\ cursor' = r.w.cur
                  /\ server' = r.w.srv
                  /\ poll' = [poll EXCEPT
                                 !.inflight = poll.inflight - 1,
                                 !.o = o, !.sound = (poll.sound /\ o = "batch"),
                                 !.fetches = poll.fetches \o r.w.fetches,
                                 !.parsed = poll.parsed \o r.w.parsed,
                                 !.worker = IF r.err = New("retry") THEN "lock" ELSE "send",
                                 !.val = IF r.err = New("retry") THEN <<>> ELSE <<r.err>>]
          IN worked(fetchWorker(World, o, b))
    /\ UNCHANGED <<fetchSize, pc, ctxDone, contextDone, watcher, call,
                   returned, delivered, closeSent, clean, probe>>

\* hive.go:1246 defer close(rowsAvailable): the worker is gone
WorkerClose ==
    /\ poll.worker = "close"
    /\ poll' = [poll EXCEPT !.worker = "exited"]
    /\ UNCHANGED <<cursor, server, fetchSize, pc, ctxDone, contextDone, watcher, call,
                   returned, delivered, closeSent, clean, probe>>

\* a receive from the unbuffered channel rowsAvailable: it takes the value of
\* a worker blocked in its send, or nil from the closed channel
Receivable(p) == p.worker \in {"send", "exited"}

Received(p) == IF p.worker = "send" THEN p.val[1] ELSE NoErr

AfterReceive(p) ==
    IF p.worker = "send" THEN [p EXCEPT !.worker = "close", !.val = <<>>] ELSE p

\* hive.go:1286 case err = <-rowsAvailable
SelectReply ==
    /\ pc = "select"
    /\ Receivable(poll)
    /\ poll' = [AfterReceive(poll) EXCEPT !.path = "reply", !.err = Received(poll)]
    /\ pc' = "tail"
    /\ UNCHANGED <<cursor, server, fetchSize, ctxDone, contextDone, watcher, call,
                   returned, delivered, closeSent, clean, probe>>

\* the caller that returns as soon as its context is done
afterContextLeavesWorker(p) == [pc |-> "tail", poll |-> [p EXCEPT !.path = "ctx",
                                                          !.err = ErrContextFetch]]

\* hive.go:1287 case <-ctx.Done(): the caller goes on to stop the worker
afterContext(p) == [pc |-> "stopLock", poll |-> [p EXCEPT !.path = "ctx"]]

\* hive.go:1287: a select with several cases ready takes any of them
SelectContext ==
    /\ pc = "select"
    /\ poll.ctx
    /\ pc' = afterContext(poll).pc
    /\ poll' = afterContext(poll).poll
    /\ UNCHANGED <<cursor, server, fetchSize, ctxDone, contextDone, watcher, call,
                   returned, delivered, closeSent, clean, probe>>

\* hive.go:1288 stopLock.Lock() of the caller
CallerLock ==
    /\ pc = "stopLock"
    /\ poll.lock = "free"
    /\ poll' = [poll EXCEPT !.lock = "caller"]
    /\ pc' = "setDone"
    /\ UNCHANGED <<cursor, server, fetchSize, ctxDone, contextDone, watcher, call,
                   returned, delivered, closeSent, clean, probe>>

\* hive.go:1289-1290 done = true; stopLock.Unlock()
CallerSetDone ==
    /\ pc = "setDone"
    /\ poll' = [poll EXCEPT !.done = TRUE, !.lock = "free"]
    /\ pc' = "wait"
    /\ UNCHANGED <<cursor, server, fetchSize, ctxDone, contextDone, watcher, call,
                   returned, delivered, closeSent, clean, probe>>

\* hive.go:1291-1295: the caller waits for the worker and drops what it sent
WaitReply ==
    /\ pc = "wait"
    /\ Receivable(poll)
    /\ poll' = [AfterReceive(poll) EXCEPT !.err = ErrContextFetch]
    /\ pc' = "tail"
    /\ UNCHANGED <<cursor, server, fetchSize, ctxDone, contextDone, watcher, call,
                   returned, delivered, closeSent, clean, probe>>

\* how the select of the call ended, in the terms of PollModes
ModeOf(p) ==
    IF p.path = "reply" THEN "reply"
    ELSE IF Len(p.fetches) > 0 THEN "ctxFetched" ELSE "ctxStopped"

\* hive.go:1298-1305: the error pollUntilData returns, asked for n rows
pollError(p, c, n) ==
    IF p.err # NoErr THEN p.err
    ELSE IF Len(c.queue) < n THEN ErrOnlyRows
    ELSE NoErr

\* hive.go:1225-1226 and 1231-1234: HasMore stores the error and answers
hasMoreTail(p, c) ==
    LET more(c1) == [cur |-> c1, ret |-> c1.state # _FINISHED \/ c1.totalRows # c1.columnIndex]
    IN more([c EXCEPT !.Err = pollError(p, c, 1)])

\* FetchOne that passes over a row when fetchIfEmpty has left an error
fetchOneTailSkipsRow(hm, dests) ==
    LET c == hm.cur
        bad == {i \in 1..Len(c.queue) : ~c.queue[i].set \/ dests[i] = "mismatch"}
        first == CHOOSE i \in bad : \A j \in bad : i <= j
        quiet == [cur |-> c, out |-> <<>>, panic |-> FALSE]
    IN IF ~hm.ret THEN [quiet EXCEPT !.cur.Err = ErrNoMoreRows]
       ELSE IF c.Err # NoErr THEN [quiet EXCEPT !.cur.columnIndex = c.columnIndex + 1]
       ELSE IF Len(c.queue) # Len(dests) THEN [quiet EXCEPT !.cur.Err = ErrArgCount]
       ELSE IF bad # {}
       THEN [quiet EXCEPT !.cur.Err = IF c.queue[first].set THEN ErrDataType
                                                              ELSE ErrEmptyColumn]
       ELSE IF \E j \in 1..Len(c.queue) : c.columnIndex + 1 > Len(c.queue[j].values)
       THEN [quiet EXCEPT !.panic = TRUE]
       ELSE [quiet EXCEPT !.cur.columnIndex = c.columnIndex + 1,
                          !.out = <<Row(c.queue, c.columnIndex)>>]

\* hive.go:720-726 and 976-1190: FetchOne after the HasMore of fetchIfEmpty
fetchOneTail(hm, dests) ==
    LET c == hm.cur
        bad == {i \in 1..Len(c.queue) : ~c.queue[i].set \/ dests[i] = "mismatch"}
        first == CHOOSE i \in bad : \A j \in bad : i <= j
        quiet == [cur |-> c, out |-> <<>>, panic |-> FALSE]
    IN IF ~hm.ret THEN [quiet EXCEPT !.cur.Err = ErrNoMoreRows]
       ELSE IF c.Err # NoErr THEN quiet
       ELSE IF Len(c.queue) # Len(dests) THEN [quiet EXCEPT !.cur.Err = ErrArgCount]
       ELSE IF bad # {}
       THEN [quiet EXCEPT !.cur.Err = IF c.queue[first].set THEN ErrDataType
                                                              ELSE ErrEmptyColumn]
       ELSE IF \E j \in 1..Len(c.queue) : c.columnIndex + 1 > Len(c.queue[j].values)
       THEN [quiet EXCEPT !.panic = TRUE]
       ELSE [quiet EXCEPT !.cur.columnIndex = c.columnIndex + 1,
                          !.out = <<Row(c.queue, c.columnIndex)>>]

\* pollUntilData returns, and with it HasMore or FetchOne; of the goroutines
\* of the call there remain the worker, if it has not exited yet, and the RPC
\* it has in flight, if any
PollReturn ==
    /\ pc = "tail"
    /\ \E dests \in (IF poll.name = "FetchOne" /\ hasMoreTail(poll, cursor).ret
                        /\ hasMoreTail(poll, cursor).cur.Err = NoErr
                     THEN DestChoices ELSE {[j \in 1..NumCols |-> "match"]}) :
          LET done(r, ret) ==
                  /\ cursor' = r.cur
                  /\ pc' = IF r.panic THEN "panic" ELSE "idle"
                  /\ call' = CallOf(poll.name, ret,
                                    [World EXCEPT !.cur = r.cur, !.fetches = poll.fetches])
                  /\ delivered' = delivered \o r.out
              hasMore(hm) == done([cur |-> hm.cur, out |-> <<>>, panic |-> FALSE], hm.ret)
              fetchOne(r) == done(r, Len(r.out) > 0)
          IN IF poll.name = "HasMore" THEN hasMore(hasMoreTail(poll, cursor))
             ELSE fetchOne(fetchOneTail(hasMoreTail(poll, cursor), dests))
    /\ returned' = returned \o poll.parsed
    /\ clean' = (clean /\ ModeOf(poll) = "reply" /\ poll.o = "batch")
    /\ poll' = [NoPolling EXCEPT !.ctx0 = poll.ctx0, !.path = poll.path,
                                 !.worker = poll.worker, !.inflight = poll.inflight,
                                 !.sound = poll.sound]
    /\ UNCHANGED <<server, fetchSize, ctxDone, contextDone, watcher, closeSent, probe>>

\* FetchOne on a row of the current batch: no fetch, no goroutine
ReadCall ==
    /\ pc = "idle"
    /\ ~needsFetch("FetchOne", cursor)
    /\ cursor.totalRows # cursor.columnIndex
    /\ \E dests \in DestChoices :
          LET done(w) == Return("FetchOne", Len(w.out) > 0, w, NoPoll)
          IN done(FetchOne(World, "reply", "rpcErr", FALSE, dests))

WorkerStep == WorkerLock \/ WorkerCheck \/ WorkerFetch \/ WorkerReply \/ WorkerClose

CallerStep ==
    SelectReply \/ SelectContext \/ CallerLock \/ CallerSetDone \/ WaitReply \/ PollReturn

\* the caller's first call, an Execute that does not wait for the statement
\* (asynchronous, or refused by the server)
SubmitCall ==
    /\ call.name = "Cursor"
    /\ ExecuteCall
    /\ pc' = "idle"

PollNext ==
    \/ SubmitCall
    \/ ServerAdvance
    \/ PollBegin
    \/ PollContextDone
    \/ WorkerLock
    \/ WorkerCheck
    \/ WorkerFetch
    \/ WorkerReply
    \/ WorkerClose
    \/ SelectReply
    \/ SelectContext
    \/ CallerLock
    \/ CallerSetDone
    \/ WaitReply
    \/ PollReturn
    \/ ReadCall

\* a caller that executes a statement and reads its rows, the fetches taken
\* goroutine step by goroutine step
PollSpec == Init /\ [][PollNext]_vars

\* The scheduling pollUntilData relies on: both goroutines keep running, and
\* a FetchResults that was sent returns in the end, with a reply or with a
\* transport error.
FairPollSpec ==
    /\ PollSpec
    /\ WF_vars(WorkerStep)
    /\ WF_vars(CallerStep)

\* ------------------------------------------------------------- properties
\* the row with identity id, as the caller receives it
RowOf(id) == [j \in 1..NumCols |-> id]

RowsOf(ids) == [i \in 1..Len(ids) |-> RowOf(ids[i])]

\* the rows of the current batch not yet handed to the caller
Unread ==
    IF cursor.queue = <<>> THEN <<>>
    ELSE [i \in 1..(cursor.totalRows - cursor.columnIndex) |->
             Row(cursor.queue, cursor.columnIndex + i - 1)]

\* the identity of the row the next FetchOne is due to deliver, 0 for none
NextRow ==
    IF Len(Unread) > 0 THEN Unread[1][1]
    ELSE IF server.pos < server.nrows THEN server.pos + 1
    ELSE 0

\* The caller streams the result set of the statement it executed: Execute
\* has returned, the cursor holds the operation, the server has finished it
\* with a result set, and every FetchResults since was answered with a
\* well-formed batch before the context of its call was done.
Streaming ==
    /\ pc = "idle"
    /\ cursor.operationHandle # NilHandle
    /\ cursor.operationHandle = server.issued
    /\ server.hasResultSet
    /\ server.opState = "FINISHED_STATE"
    /\ clean

\* C1: while the caller streams a result set of n rows, once n rows have been
\* delivered every further FetchOne fails with "No more rows are left",
\* delivers nothing, takes nothing from the server's result set, and leaves
\* the cursor where the next FetchOne fails the same way.
C1_NoMoreRows ==
    [][(/\ Streaming
        /\ Len(delivered) = server.nrows
        /\ call'.name = "FetchOne"
        /\ clean')
       => /\ ~call'.ret
          /\ cursor'.Err = ErrNoMoreRows
          /\ delivered' = delivered
          /\ server'.pos = server.pos
          /\ cursor'.columnIndex = cursor'.totalRows
          /\ Streaming']_vars

\* a FetchOne has failed for want of rows after all MaxRows rows of the
\* result set were delivered across a batch boundary
C1_Witness ==
    /\ Streaming
    /\ server.nrows = MaxRows
    /\ Len(delivered) = MaxRows
    /\ fetchSize < MaxRows
    /\ call.name = "FetchOne"
    /\ ~call.ret
    /\ cursor.Err = ErrNoMoreRows

\* C2: while the caller streams a result set of n rows, the rows delivered
\* followed by the unread rows of the current batch are the rows of the
\* batches the server returned, in order and each once; these are the first
\* rows of the result set; no more than n calls succeed, and when a call has
\* failed for want of rows exactly n have.
C2_RowsInOrder ==
    Streaming =>
        /\ delivered \o Unread = RowsOf(returned)
        /\ returned = [i \in 1..server.pos |-> i]
        /\ Len(delivered) <= server.nrows
        /\ cursor.Err = ErrNoMoreRows => Len(delivered) = server.nrows

\* all MaxRows rows were delivered from more than one batch
C2_Witness ==
    /\ Streaming
    /\ server.nrows = MaxRows
    /\ fetchSize < MaxRows
    /\ delivered = RowsOf([i \in 1..MaxRows |-> i])
    /\ cursor.Err = ErrNoMoreRows

\* C3: every FetchResults for rows a call sent was sent with the current
\* batch fully consumed (columnIndex = totalRows) and the cursor not FINISHED.
C3_FetchOnlyWhenConsumed ==
    \A i \in 1..Len(call.fetches) :
        /\ call.fetches[i].columnIndex = call.fetches[i].totalRows
        /\ call.fetches[i].state # _FINISHED

\* a FetchOne fetched the next batch after rows of an earlier one were read
C3_Witness ==
    /\ call.name = "FetchOne"
    /\ Len(call.fetches) = 1
    /\ call.fetches[1].totalRows > 0
    /\ call.ret

\* C4: while the caller streams a result set, a HasMore does not change the
\* row the next FetchOne is due to deliver, and a HasMore that follows a
\* HasMore returns the boolean the one before it returned.
C4_HasMoreIdempotent ==
    [][(/\ Streaming
        /\ call'.name = "HasMore"
        /\ clean')
       => /\ NextRow' = NextRow
          /\ call.name = "HasMore" => call'.ret = call.ret]_vars

\* a HasMore returned true without fetching, on a batch that an earlier call
\* had fetched and of which no row was delivered meanwhile
C4_Witness ==
    /\ Streaming
    /\ call.name = "HasMore"
    /\ call.ret
    /\ Len(call.fetches) = 0
    /\ delivered = <<>>
    /\ Len(Unread) > 1

C6_EmptyBatchEndsStream ==
    /\ [][(/\ Streaming
           /\ Len(call'.fetches) > 0
           /\ clean')
          => (cursor'.state = _FINISHED <=> server'.pos = server.pos)]_vars
    /\ [](Streaming /\ server.nrows = 0 /\ call.name = "HasMore"
          => ~call.ret /\ cursor.Err = NoErr)

\* the first HasMore on a result set without rows fetched an empty batch and
\* returned false
C6_Witness ==
    /\ Streaming
    /\ server.nrows = 0
    /\ call.name = "HasMore"
    /\ Len(call.fetches) = 1
    /\ ~call.ret
    /\ cursor.state = _FINISHED
    /\ cursor.Err = NoErr

\* C7 as claimed: column_index never exceeds total_rows.
C7_IndexWithinTotal == cursor.columnIndex <= cursor.totalRows

\* C8: a cursor that holds no operation handle has an empty queue and no
\* cached description.
C8_NoHandleNoData ==
    cursor.operationHandle = NilHandle =>
        /\ cursor.queue = <<>>
        /\ ~cursor.description.set

\* a Close dropped the handle of an operation whose rows had been fetched
C8_Witness ==
    /\ cursor.operationHandle = NilHandle
    /\ call.name = "Close"
    /\ Len(call.rpc) = 1
    /\ Len(returned) > 0

C10_DoneContextSequence ==
    /\ pc = "hdc" => cursor.state = _CONTEXT_DONE /\ cursor.Err = ErrContextExec
    /\ (/\ pc = "idle"
        /\ call.name = "Execute"
        /\ \E i \in 1..Len(call.rpc) : call.rpc[i].name = "CancelOperation")
       => /\ Len(call.rpc) >= 2
          /\ call.rpc[Len(call.rpc) - 1].name = "CancelOperation"
          /\ call.rpc[Len(call.rpc)] =
                 Rpc("CloseOperation", call.rpc[Len(call.rpc) - 1].h)
          /\ cursor.operationHandle = NilHandle
          /\ cursor.Err = ErrContextExec

\* a synchronous Execute has just returned through handleDoneContext: its
\* context was done while it polled, and it held a handle, so that it sent
\* CancelOperation
DoneContextReturned ==
    /\ pc = "idle"
    /\ call.name = "Execute"
    /\ \E i \in 1..Len(call.rpc) : call.rpc[i].name = "CancelOperation"

\* C11 as claimed: after a synchronous Execute has returned because its
\* context was done, the cursor holds no operation handle and a
\* CloseOperation was sent for the handle it cancelled, whatever the outcome
\* of CancelOperation.
C11_NoHandleAfterContextDone ==
    DoneContextReturned =>
        /\ cursor.operationHandle = NilHandle
        /\ \A i \in 1..Len(call.rpc) :
              call.rpc[i].name = "CancelOperation" => call.rpc[i].h \in closeSent

\* C12 as claimed: a synchronous Execute that ended because its context was
\* done leaves the context-done error in the error slot, and not an error of
\* the server or of CancelOperation or CloseOperation; and the error slot
\* holds the context-done error of Execute only when the context of the
\* Execute was done.
C12_ContextErrorOnly ==
    /\ DoneContextReturned => cursor.Err = ErrContextExec
    /\ cursor.Err = ErrContextExec =>
          /\ call.name = "Execute"
          /\ ((pc = "hdc" /\ ctxDone /\ contextDone) \/ DoneContextReturned)

\* C13: a synchronous Execute whose context is done while it polls returns in
\* the end, its watcher goroutine gone; it returns with an error in the error
\* slot unless the server has finished the operation meanwhile, so that with
\* an operation the server keeps active it always returns an error.
C13_ContextDoneReturns ==
    (pc = "wfc" /\ ctxDone)
        ~> (/\ pc = "idle"
            /\ ~watcher
            /\ cursor.Err # NoErr \/ server.opState = "FINISHED_STATE")

\* an Execute returned the context-done error; the watcher had seen the
\* context done and has ended, and the operation was cancelled and closed
C13_Witness ==
    /\ DoneContextReturned
    /\ cursor.Err = ErrContextExec
    /\ ~watcher
    /\ cursor.operationHandle = NilHandle
    /\ call.rpc[Len(call.rpc)].name = "CloseOperation"

\* C14: an Execute called right after one or more failed Executes closes the
\* operation the cursor may still hold, submits its statement from a reset
\* cursor and leaves the error slot empty exactly when the server accepted
\* the statement; and a synchronous one returns with the error slot empty
\* only if the operation has finished, and never empty when the operation
\* ended in another terminal state.
C14_ExecuteAfterFailure ==
    /\ [][(/\ pc = "idle"
           /\ FailedExecutes > 0
           /\ call'.name \in {"Execute", "ExecuteAsync"}
           /\ cursor' # cursor \/ call' # call)
          => /\ Len(call'.rpc) > 0
             /\ call'.rpc[Len(call'.rpc)].name = "ExecuteStatement"
             /\ cursor.operationHandle # NilHandle
                   => call'.rpc[1] = Rpc("CloseOperation", cursor.operationHandle)
             /\ cursor'.queue = <<>>
             /\ cursor'.columnIndex = 0
             /\ cursor'.totalRows = 0
             /\ cursor'.response = NilResponse
             /\ ~cursor'.description.set
             /\ cursor'.Err = NoErr
                   <=> /\ server'.issued = server.issued + 1
                       /\ cursor'.operationHandle = server'.issued
                       /\ cursor'.operationHandle \in server'.open
             /\ cursor'.Err # NoErr => cursor'.operationHandle = NilHandle]_vars
    /\ [][(pc \in {"wfc", "hdc"} /\ pc' = "idle" /\ call.prior > 0)
          => /\ cursor'.Err = NoErr
                   => /\ server'.opState = "FINISHED_STATE"
                      /\ cursor'.operationHandle = server'.issued
                      /\ cursor'.operationHandle \in server'.open
             /\ server'.opState \in TerminalStates \ {"FINISHED_STATE"}
                   => cursor'.Err # NoErr]_vars

\* a synchronous Execute has succeeded right after MaxFailures failed ones
C14_Witness ==
    /\ pc = "idle"
    /\ call.name = "Execute"
    /\ call.prior = MaxFailures
    /\ cursor.Err = NoErr
    /\ cursor.state = _ASYNC_ENDED
    /\ cursor.operationHandle = server.issued
    /\ server.opState = "FINISHED_STATE"

\* C15: when the reply to the ExecuteStatement of an Execute carries a status
\* that is not success (or no status, which counts as the default error
\* status), the Execute has returned without polling, the cursor holds no
\* operation handle, and the error slot holds a HiveError whose Message and
\* ErrorCode are the error message and error code of that status, "" and 0
\* for a field the status leaves unset.
C15_HiveErrorFromStatus ==
    (/\ call.name \in {"Execute", "ExecuteAsync"}
     /\ call.status # <<>>
     /\ \/ call.status[1] = NilStatus
        \/ call.status[1].statusCode \notin {"SUCCESS_STATUS", "SUCCESS_WITH_INFO_STATUS"})
    => /\ pc = "idle"
       /\ ~watcher
       /\ call.rpc[Len(call.rpc)].name = "ExecuteStatement"
       /\ cursor.operationHandle = NilHandle
       /\ DOMAIN cursor.Err = {"error", "Message", "ErrorCode"}
       /\ IF call.status[1] = NilStatus
          THEN /\ cursor.Err.Message = DEFAULT_ERROR_MESSAGE
               /\ cursor.Err.ErrorCode = DEFAULT_ERROR_CODE
          ELSE /\ cursor.Err.Message =
                     (IF call.status[1].errorMessage = <<>> THEN ""
                      ELSE call.status[1].errorMessage[1])
               /\ cursor.Err.ErrorCode =
                     (IF call.status[1].errorCode = <<>> THEN 0
                      ELSE call.status[1].errorCode[1])

\* a synchronous Execute was answered with the error of a table not found
C15_Witness ==
    /\ pc = "idle"
    /\ call.name = "Execute"
    /\ call.status = <<[statusCode |-> "ERROR_STATUS",
                        errorCode |-> <<TableNotFoundCode>>,
                        errorMessage |-> <<TableNotFound>>]>>
    /\ cursor.Err = [error |-> ErrHive.error, Message |-> TableNotFound,
                     ErrorCode |-> TableNotFoundCode]
    /\ cursor.operationHandle = NilHandle

\* the errors only an Execute leaves in the error slot: the error of an
\* operation that ended in a terminal state other than FINISHED, the HiveError
\* of a rejected statement, the errors of a context that was done
ExecuteErrors ==
    {ErrContextExec, ErrDeadline, ErrProbablyContext}
        \cup {operationError("ERROR_STATE", reply) : reply \in FailureMessages}
        \cup {HiveError(safeStatus(st)) : st \in ExecStatuses("badStatus")}

C17_FailedFetchKeepsRow ==
    [][(Streaming /\ clean' /\ call'.name = "FetchOne")
       => /\ cursor'.Err \in {ErrArgCount, ErrDataType}
                => /\ ~call'.ret
                   /\ delivered' = delivered
                   /\ NextRow' = NextRow
                   /\ NextRow > 0
                   /\ cursor'.columnIndex =
                          (IF call'.fetches = <<>> THEN cursor.columnIndex ELSE 0)
                   /\ cursor'.columnIndex < cursor'.totalRows
          /\ call'.ret
                => /\ cursor'.Err = NoErr
                   /\ delivered' = Append(delivered, RowOf(NextRow))]_vars

\* a FetchOne given a destination of the wrong type has failed on the second
\* row of a batch, the first row delivered
C17_Witness ==
    /\ Streaming
    /\ call.name = "FetchOne"
    /\ cursor.Err = ErrDataType
    /\ call.fetches = <<>>
    /\ cursor.columnIndex = 1
    /\ Len(delivered) = 1
    /\ NextRow = 2

\* C19: isNull(nulls, k) is true exactly when the bitmap has a byte at index
\* k/8 and bit k%8 of that byte, counted from the least significant one, is
\* 1; with no byte at index k/8 it is false.
C19_IsNullBit ==
    probe.op = "isNull" =>
        /\ probe.result
              <=> /\ probe.k \div 8 < Len(probe.nulls)
                  /\ (probe.nulls[probe.k \div 8 + 1] \div 2^(probe.k % 8)) % 2 = 1
        /\ probe.k \div 8 >= Len(probe.nulls) => ~probe.result

\* position 9 is bit 1 of the second byte, 130 = 2^7 + 2^1: null
C19_Witness ==
    /\ probe.op = "isNull"
    /\ probe.nulls = <<0, 130>>
    /\ probe.k = 9
    /\ probe.result

C20_RowMapEntries ==
    probe.op = "RowMap" =>
        /\ probe.out.err = NoErr
        /\ probe.out.columnIndex = probe.k + 1
        /\ DOMAIN probe.out.m = {probe.d[j].name : j \in 1..Len(probe.d)}
        /\ \A j \in 1..Len(probe.d) :
              (\A i \in (j + 1)..Len(probe.d) : probe.d[i].name # probe.d[j].name)
                 => probe.out.m[probe.d[j].name] =
                        (IF probe.k \in probe.nullAt[j] THEN <<>>
                         ELSE <<CellValue(j, probe.k + 1)>>)

\* C21: Connection.Close always sends CloseSession and then closes the
\* transport, also when CloseSession failed; it returns the error of the
\* transport's close if there is one, otherwise the failure of CloseSession
\* (error of the RPC, or a status that is not success), otherwise nil.
C21_CloseSessionThenTransport ==
    probe.op = "Connection.Close" =>
        /\ probe.result.trace = <<"CloseSession", "transport.Close">>
        /\ (probe.ot # "ok" => probe.result.err = ErrTransportClose)
        /\ (probe.ot = "ok" /\ probe.oc = "rpcErr" => probe.result.err = ErrRpc)
        /\ (probe.ot = "ok" /\ probe.oc = "badStatus" =>
               /\ probe.result.err # NoErr
               /\ probe.result.err \notin {ErrRpc, ErrTransportClose})
        /\ (probe.ot = "ok" /\ probe.oc = "ok" => probe.result.err = NoErr)

\* CloseSession failed and the transport was closed all the same
C21_Witness ==
    /\ probe.op = "Connection.Close"
    /\ probe.oc = "rpcErr"
    /\ probe.ot = "ok"
    /\ probe.result.trace = <<"CloseSession", "transport.Close">>
    /\ probe.result.err = ErrRpc

\* the last occurrence of the name in the cookies of a request
LastOf(cookies, name) ==
    LET at == {i \in 1..Len(cookies) : cookies[i].Name = name}
    IN cookies[CHOOSE i \in at : \A j \in at : j <= i]

\* C24: the request CookieDedupTransport.RoundTrip forwards carries every
\* cookie name of the original request exactly once, with the value of the
\* last occurrence of that name in the original request, and no other name.
C24_CookiesOncePerName ==
    probe.op = "RoundTrip" =>
        /\ \A i \in 1..Len(probe.cookies) :
              LET name == probe.cookies[i].Name
                  at == {k \in 1..Len(probe.forwarded) : probe.forwarded[k].Name = name}
              IN /\ Cardinality(at) = 1
                 /\ \A k \in at :
                       probe.forwarded[k].Value = LastOf(probe.cookies, name).Value
        /\ \A k \in 1..Len(probe.forwarded) :
              \E i \in 1..Len(probe.cookies) :
                 probe.cookies[i].Name = probe.forwarded[k].Name

\* a name sent twice with two values, and another name after it
C24_Witness ==
    /\ probe.op = "RoundTrip"
    /\ Len(probe.cookies) = 3
    /\ probe.cookies[1].Name = probe.cookies[2].Name
    /\ probe.cookies[1].Value # probe.cookies[2].Value
    /\ probe.cookies[3].Name # probe.cookies[1].Name
    /\ Len(probe.forwarded) = 2

\* the step is a call of Finished whose poll the server answered
FinishedAnswered ==
    /\ pc = "idle"
    /\ pc' = "idle"
    /\ server' = server
    /\ call'.name = "Finished"
    /\ cursor'.Err = NoErr

\* C27: WaitForCompletion and Finished treat exactly the server states
\* INITIALIZED, RUNNING and PENDING as still running: a turn of
\* WaitForCompletion whose poll is answered polls again, and Finished returns
\* false, if and only if the polled operation state is one of these three.
C27_StillRunning ==
    [][/\ (FinishedAnswered => (call'.ret = FALSE <=> server.opState \in ActiveStates))
       /\ (pc = "wfc" /\ "ok" \in HandleOutcomes(server, cursor.operationHandle) =>
              \A reply \in OperationMessages(server) :
                 WaitForCompletion(World, "ok", FALSE, reply).to = "loop"
                     <=> server.opState \in ActiveStates)]_vars

\* the step is a turn of WaitForCompletion that ends the polling on a reply
BrokeOut ==
    /\ pc = "wfc"
    /\ pc' = "idle"
    /\ Len(call'.polled) > 0

\* the first message there is, in the order task_status (unless "[]"),
\* error_message, error_message of the status, placeholder
FirstAvailable(polled) ==
    LET r == polled.reply
    IN IF r.taskStatus # <<>> /\ r.taskStatus[1] # "[]" THEN r.taskStatus[1]
       ELSE IF r.errorMessage # <<>> THEN r.errorMessage[1]
       ELSE IF r.statusMessage # <<>> THEN r.statusMessage[1]
       ELSE Placeholder(polled.state)

\* C28: when WaitForCompletion observes a terminal state other than FINISHED
\* it sets an error whose message is the first available of task_status
\* (unless absent or "[]"), error_message, the error_message of the nested
\* status and a placeholder; when the state is FINISHED it sets no error.
C28_OperationError ==
    [][BrokeOut =>
          /\ call'.polled[1].state = server.opState
          /\ call'.polled[1].state \in TerminalStates
          /\ IF call'.polled[1].state = "FINISHED_STATE" THEN cursor'.Err = NoErr
             ELSE cursor'.Err = New(FirstAvailable(call'.polled[1]))]_vars

\* an operation failed with the task status "[]" and an error message
C28_Witness ==
    /\ pc = "idle"
    /\ call.name = "Execute"
    /\ Len(call.polled) > 0
    /\ call.polled[1].state = "ERROR_STATE"
    /\ call.polled[1].reply.taskStatus = <<"[]">>
    /\ call.polled[1].reply.errorMessage = <<"error message">>
    /\ cursor.Err = New("error message")

\* Execute has just returned from a statement the server accepted and that
\* has no result set
ExecutedWithoutResultSet ==
    /\ pc = "idle"
    /\ call.name \in {"Execute", "ExecuteAsync"}
    /\ cursor.Err = NoErr
    /\ cursor.operationHandle # NilHandle
    /\ ~server.hasResultSet

\* C29: when ExecuteStatement succeeds for a statement with no result set,
\* the cursor state is FINISHED when Execute returns, in synchronous as in
\* asynchronous mode, and a HasMore that follows returns false without
\* sending FetchResults.
C29_NoResultSetFinished ==
    [][ExecutedWithoutResultSet =>
          /\ cursor.state = _FINISHED
          /\ (call'.name = "HasMore" => ~call'.ret /\ Len(call'.fetches) = 0)]_vars

\* C29 as the code has it: when ExecuteStatement succeeds for a statement
\* with no result set, the cursor state is FINISHED when an asynchronous
\* Execute returns, and a HasMore that follows returns false without sending
\* FetchResults; when a synchronous Execute returns, the state is ASYNC_ENDED.
C29_FinishedWhenAsync ==
    [][ExecutedWithoutResultSet =>
          IF call.name = "ExecuteAsync"
          THEN /\ cursor.state = _FINISHED
               /\ (call'.name = "HasMore" => ~call'.ret /\ Len(call'.fetches) = 0)
          ELSE cursor.state = _ASYNC_ENDED]_vars

\* HasMore after an asynchronous Execute of a statement with no result set
C29_Witness ==
    /\ pc = "idle"
    /\ call.name = "HasMore"
    /\ ~call.ret
    /\ Len(call.fetches) = 0
    /\ cursor.operationHandle # NilHandle
    /\ cursor.response = NilResponse
    /\ cursor.state = _FINISHED
    /\ ~server.hasResultSet

\* a slice with log lines
HasLines(logs) == logs # NilLogs

\* C30: during a synchronous Execute with a log channel attached, every
\* batch of log lines fetched from the server is sent to the channel exactly
\* once and in the order it was fetched (the batch being sent is the last
\* one fetched), and the cursor never closes the channel.
C30_LogsInOrder ==
    /\ IF pc \in {"loopSend", "flushSend"} /\ HasLines(call.pending)
       THEN SelectSeq(call.logsSent, HasLines) \o <<call.pending>> = call.logsFetched
       ELSE SelectSeq(call.logsSent, HasLines) = call.logsFetched
    /\ \A i \in 1..Len(call.logsFetched) : call.logsFetched[i] = i
    /\ cursor.Logs \in {NilChannel, "open"}

\* an Execute that sent a batch while it polled and another when it ended
C30_Witness ==
    /\ pc = "idle"
    /\ call.name = "Execute"
    /\ cursor.Logs = "open"
    /\ cursor.Err = NoErr
    /\ cursor.state = _ASYNC_ENDED
    /\ call.logsFetched = <<1, 2>>
    /\ call.logsSent = <<1, 2>>

\* the pairs of transport mode and auth the spec lists
SupportedPairs ==
    {<<"binary", a>> : a \in {"NOSASL", "NONE", "LDAP", "CUSTOM", "KERBEROS", "DIGEST-MD5"}}
        \cup {<<"http", "NONE">>, <<"http", "KERBEROS">>}

Has(trace, name) == \E i \in 1..Len(trace) : trace[i] = name

\* C22: Connect called with a pair of transport mode and auth outside the
\* supported ones fails by returning an error to the caller, and sends no
\* OpenSession.
C22_UnsupportedPairFails ==
    probe.op = "Connect" /\ <<probe.mode, probe.auth>> \notin SupportedPairs =>
        /\ ~probe.result.panic
        /\ probe.result.err # NoErr
        /\ ~probe.result.conn
        /\ ~Has(probe.result.trace, "OpenSession")

Count(trace, name) == Cardinality({i \in 1..Len(trace) : trace[i] = name})

\* C23: when the configured database is non-empty, Connect issues exactly one
\* USE statement on a throwaway cursor after OpenSession succeeded, closes
\* that cursor's operation before returning, and returns the statement's
\* error (and no connection) if it fails; when the database is empty no
\* statement is issued.
C23_UseDatabase ==
    probe.op = "Connect" =>
        LET trace == probe.result.trace
            opened == Has(trace, "OpenSession") /\ probe.in.oo # "rpcErr"
            accepted == probe.in.oe = "ok"
        IN /\ (probe.database = "" \/ ~opened => ~Has(trace, "ExecuteStatement"))
           /\ (probe.database # "" /\ opened =>
                  /\ Count(trace, "ExecuteStatement") = 1
                  /\ trace[4] = "ExecuteStatement"
                  /\ Count(trace, "CloseOperation") = (IF accepted THEN 1 ELSE 0)
                  /\ (accepted => trace[5] = "CloseOperation")
                  /\ (probe.result.err = NoErr <=>
                         accepted /\ probe.in.polls[Len(probe.in.polls)].state = "FINISHED_STATE")
                  /\ probe.result.conn = (probe.result.err = NoErr))

\* the USE statement failed on the server after a poll that saw it running
C23_Witness ==
    /\ probe.op = "Connect"
    /\ probe.database # ""
    /\ probe.in.oe = "ok"
    /\ Len(probe.in.polls) = 2
    /\ probe.in.polls[2].state = "ERROR_STATE"
    /\ probe.result.trace =
           <<"dial", "transport.Open", "OpenSession", "ExecuteStatement", "CloseOperation">>
    /\ probe.result.err = New("error message")
    /\ ~probe.result.conn

\* the call that is returning: pollUntilData is over and HasMore or FetchOne
\* stores its error
Returning == poll.active /\ ~poll'.active

\* C25: HasMore or FetchOne called with a context that is done already, where
\* a fetch is needed, returns with an error in the error slot, whatever the
\* interleaving of the caller and the fetch worker
C25_DoneContextIsAnError ==
    [][Returning /\ poll.ctx0 => cursor'.Err # NoErr]_vars

C31_FinalLogsSent ==
    [][(pc # "idle" /\ pc' = "idle" /\ cursor.Logs # NilChannel /\ cursor'.Err = NoErr)
        => /\ pc = "flushSend"
           /\ call.polled # <<>> /\ call.polled[1].state = "FINISHED_STATE"
           /\ cursor.state # _ASYNC_ENDED
           /\ cursor'.state = _ASYNC_ENDED
           /\ call'.logsSent = call.logsSent \o <<call.pending>>
           /\ Len(call'.logsSent) >= 1]_vars

\* an Execute whose operation was finished at its first poll (every turn of
\* the loop before the last sends a message) has returned, and its only
\* message is the result of the final fetch
C31_Witness ==
    /\ pc = "idle"
    /\ call.name = "Execute"
    /\ cursor.Logs = "open"
    /\ cursor.Err = NoErr
    /\ cursor.state = _ASYNC_ENDED
    /\ call.polled # <<>>
    /\ Len(call.logsSent) = 1
\* the step is a call that resets a cursor holding an operation
ResetsOperation ==
    /\ pc = "idle"
    /\ cursor.operationHandle # NilHandle
    /\ cursor' # cursor
    /\ call'.name \in {"Close", "Execute", "ExecuteAsync"}

\* the CloseOperation of the step was not carried out
CloseFailed == cursor.operationHandle \in server'.open

\* what a reset leaves of the data of the operation before: nothing
ClearedInMemory(c) ==
    /\ c.queue = <<>>
    /\ c.description = NilDescription
    /\ c.response = NilResponse
    /\ c.columnIndex = 0
    /\ c.totalRows = 0

\* C32: the reset of Close and of Execute completes in memory (empty queue,
\* no description, both indices 0, and after Close state NONE and no handle)
\* whatever CloseOperation answers, and a failed CloseOperation leaves an
\* error in the error slot of the Close or the Execute that made it.
C32_ResetSurfaced ==
    [][ResetsOperation
        => /\ ClearedInMemory(cursor')
           /\ cursor'.operationHandle # cursor.operationHandle
           /\ call'.name = "Close" => cursor'.state = _NONE
                                      /\ cursor'.operationHandle = NilHandle
           /\ CloseFailed => cursor'.Err # NoErr]_vars
\* the step is a call of Close
Closes == call'.name = "Close" /\ (call' # call \/ cursor' # cursor)

\* C33: Close sends CloseOperation exactly when the cursor holds a handle,
\* and for that handle; the error slot is then the failure of that call, or
\* nil when it succeeded or none was sent, whatever the slot held before; the
\* cursor holds no handle after a Close, so a second Close in a row sends no
\* RPC and leaves a nil error.
C33_CloseOperationIffHandle ==
    /\ [][Closes =>
            /\ call'.rpc = IF cursor.operationHandle # NilHandle
                           THEN <<Rpc("CloseOperation", cursor.operationHandle)>>
                           ELSE <<>>
            /\ cursor'.Err = NoErr
                  <=> (cursor.operationHandle = NilHandle \/ ~CloseFailed)
            /\ cursor'.Err \in {NoErr, ErrRpc, ErrStatus}
            /\ call.name = "Close" => call'.rpc = <<>> /\ cursor'.Err = NoErr]_vars
    /\ [](call.name = "Close" =>
            /\ cursor.operationHandle = NilHandle
            /\ call.rpc = <<>> => cursor.Err = NoErr)

\* a Close whose CloseOperation was answered with a non-success status
C33_Witness ==
    /\ call.name = "Close"
    /\ call.rpc # <<>>
    /\ cursor.Err = ErrStatus
\* the nodes of a ConnectZookeeper in the order it takes them
ShuffledNodes(p) ==
    [i \in 1..Len(p.shuffle) |-> parseHiveServer2Info(p.hsInfos)[p.shuffle[i]]]

\* a connection to the server registered at place k succeeds
Accepts(p, k) ==
    /\ p.hsInfos[k].kind = "hostPort"
    /\ p.hsInfos[k].attempt = "up"

\* C34: ConnectZookeeper calls innerConnect for the registered servers in the
\* shuffled order, for each at most once, up to the first server that accepts
\* the connection; it returns the connection to that server, and an error
\* and no connection when no server accepts or none is registered.
C34_FirstServerThatAccepts ==
    probe.op = "ConnectZookeeper" /\ probe.oz = "ok" =>
        LET nodes == ShuffledNodes(probe)
            r == probe.result
            first == {i \in 1..Len(nodes) :
                         /\ Accepts(probe, nodes[i])
                         /\ \A j \in 1..(i - 1) : ~Accepts(probe, nodes[j])}
            upTo == IF first = {} THEN Len(nodes) ELSE CHOOSE i \in first : TRUE
        IN /\ r.tried = SelectSeq(SubSeq(nodes, 1, upTo),
                                  LAMBDA k : probe.hsInfos[k].kind = "hostPort")
           /\ \A i, j \in 1..Len(r.tried) : i # j => r.tried[i] # r.tried[j]
           /\ ~r.panic
           /\ first # {} => r.conn = nodes[upTo] /\ r.err = NoErr
           /\ first = {} => r.conn = 0 /\ r.err # NoErr
\* C35: one HasMore or FetchOne sends at most one FetchResults for rows.
\* When FetchResults returns the worker goes on to send its result, never to
\* the sleep and the next turn of its loop: a reply with a column leaves the
\* queue non-empty and ends the loop without error, rows or no rows, and a
\* reply without columns ends it with an error.
C35_OneFetchPerCall ==
    /\ [](Len(poll.fetches) <= 1)
    /\ [](call.name \in {"HasMore", "FetchOne"} => Len(call.fetches) <= 1)
    /\ [][poll.worker = "rpc" /\ poll'.worker # "rpc"
            => /\ poll'.worker = "send"
               /\ Len(poll'.fetches) = 1
               /\ poll'.o = "batch" => poll'.val = <<NoErr>> /\ Len(cursor'.queue) > 0
               /\ poll'.o = "noCols" => poll'.val = <<ErrAllEmpty>>]_vars

\* the worker is about to send nil after a reply with columns and no rows
C35_Witness ==
    /\ poll.worker = "send"
    /\ poll.o = "batch"
    /\ poll.val = <<NoErr>>
    /\ Len(poll.fetches) = 1
    /\ cursor.totalRows = 0
    /\ Len(cursor.queue) > 0
\* C36: a synchronous Execute on a cursor with a log channel whose context
\* is done returns in the end, also when nobody receives from the channel.
C36_ContextDoneReturnsWithLogs ==
    (pc \in {"wfc", "loopSend", "flushSend", "hdc"} /\ ctxDone /\ cursor.Logs # NilChannel)
        ~> (pc = "idle")
\* the rows the server has handed out so far
Served == RowsOf([i \in 1..server.pos |-> i])

\* C37: whatever the interleaving of a call with its fetch worker and
\* whenever its context fires, as long as the server answers every
\* FetchResults with a well-formed batch the rows it has handed out are the
\* rows delivered followed by the rows unread in the cursor, in order and
\* each once; a call that ends with a context error delivers and drops
\* nothing; a FetchOne that ends without error delivers the next row; and "No
\* more rows are left" comes only when all rows have been delivered.
C37_NoRowLost ==
    /\ [](poll.sound => delivered \o Unread = Served)
    /\ [][Returning /\ poll'.sound /\ cursor'.Err = ErrContextFetch
            => delivered' = delivered /\ Unread' = SubSeq(Served', Len(delivered) + 1, server'.pos)]_vars
    /\ [][Returning /\ poll'.sound /\ poll.name = "FetchOne" /\ cursor'.Err = NoErr
            => delivered' = Append(delivered, RowOf(Len(delivered) + 1))]_vars
    /\ [][Returning /\ poll'.sound /\ cursor'.Err = ErrNoMoreRows
            => Len(delivered') = server'.nrows]_vars

\* a call was cancelled after its worker had parsed a batch, and a later
\* FetchOne has delivered the first row of that batch
C37_Witness ==
    /\ pc = "idle"
    /\ poll.sound
    /\ poll.path = "ctx"
    /\ call.name = "FetchOne"
    /\ call.fetches = <<>>
    /\ cursor.Err = NoErr
    /\ delivered = <<RowOf(1)>>
    /\ server.pos >= 1
\* C38: a FetchOne whose loop over the columns ends with an error has left
\* every destination as the caller passed it.
C38_FailedFetchOneWritesNothing ==
    (probe.op = "FetchOneRow" /\ probe.out.err # NoErr) => probe.out.dests = probe.dests
\* C39: when FetchOne, RowMap or RowSlice has returned, either it has handed
\* out one row and moved columnIndex past it, or the cursor holds an error.
C39_RowOrError ==
    (pc = "idle" /\ call.name \in {"FetchOne", "RowMap", "RowSlice"})
        => \/ cursor.Err # NoErr
           \/ call.ret /\ cursor.columnIndex >= 1
\* what a call has done, as a set
Done(trace) == {trace[i] : i \in 1..Len(trace)}

\* the socket a Connect has opened and not closed, and the session
SocketLeftOpen(p) ==
    /\ p.in.od = "ok"
    /\ Done(p.result.trace) \cap {"socket.Close", "transport.Close"} = {}

SessionLeftOpen(p) ==
    /\ "OpenSession" \in Done(p.result.trace)
    /\ p.in.oo = "ok"
    /\ "CloseSession" \notin Done(p.result.trace)

\* C40: a Connect that returns an error after its socket was opened has
\* closed the socket or the transport over it, and the session when the
\* server had opened one.
C40_FailedConnectClosesAll ==
    (probe.op = "Connect" /\ probe.result.err # NoErr /\ probe.in.od = "ok")
        => ~SocketLeftOpen(probe) /\ ~SessionLeftOpen(probe)
====
